---- MODULE Spec2Model ----
(***************************************************************************)
(* ChatTrain security pipeline: the token-bucket RateLimiter               *)
(* (app/security/rate_limiter.py) and the message orchestrators            *)
(* (app/secure_websocket.py, app/websocket.py).                            *)
(*                                                                         *)
(* Time is the value of time.time() in whole seconds.  Token counts are    *)
(* kept in sixtieths of a token (TokenScale), so that the refill           *)
(* (elapsed / 60.0) * limit is the integer elapsed * limit and the test    *)
(* tokens >= 1.0 is tokens >= TokenScale: the arithmetic is exact.         *)
(***************************************************************************)
EXTENDS Integers, Sequences, FiniteSets, TLC

VARIABLES
    now,            \* the clock read by time.time()
    ticks,          \* how many times the clock has advanced
    rate_limiter,   \* the RateLimiter object: its fields
    result,         \* outcome of the last RateLimiter operation
    shadow,         \* a second RateLimiter, fed the same calls minus one user's
    shadow_result,  \* outcome of the last check_rate_limit on the shadow
    admissions,     \* history: endpoint and time of the checks seen allowed
    manager,        \* which manager object handles messages, and its db_manager
    security_events,\* SecureWebSocketManager.security_events
    effects,        \* the calls made while handling the last inbound message
    outcome,        \* how the handling of the last inbound message ended
    masker,         \* the DataMasker object: its fields
    active_connections, \* the manager's registry: session_id -> list of sockets
    websockets,     \* each WebSocket: handshake state, close code, peer alive
    registry_op,    \* the last connect, disconnect or broadcast and its calls
    workers         \* websocket_endpoint's loop, one per connection

pipeVars == <<manager, security_events, effects, outcome, masker>>

connVars == <<active_connections, websockets, registry_op, workers>>

vars == <<now, ticks, rate_limiter, result, shadow, shadow_result, admissions,
          manager, security_events, effects, outcome, masker,
          active_connections, websockets, registry_op, workers>>

\* ---------------------------------------------------------------- bounds
MaxTicks == 2
MaxHist == 2
MaxIsoTicks == 3
MaxIsoHist == 4
MaxBurstTicks == 2
MaxBurstHist == 27
MaxPipeTicks == 1
MaxPipeHist == 3
MaxFrames == 3
MaxLogged == 4
MaxAdminTicks == 1
MaxAdminHist == 2
MaxMaskWords == 3
MaxCustomPatterns == 1
MaxCustomWords == 2

\* ------------------------------------------------------------- constants
TokenScale == 60
cleanup_interval == 300
retention == 3600
login_limit == 10

Users == {"alice"}
Endpoints == {"websocket_message", "feedback"}
RpmValues == {2, 20}
BurstValues == {5}
None == "None"

Min(a, b) == IF a <= b THEN a ELSE b

Remove(f, k) == [x \in DOMAIN f \ {k} |-> f[x]]

Put(f, k, v) == [x \in DOMAIN f \cup {k} |-> IF x = k THEN v ELSE f[x]]

\* RateLimiter.__init__: the fields of a new limiter constructed at time t
RateLimiterInit(rpm, burst, t) ==
    [requests_per_minute |-> rpm,
     burst_allowance     |-> burst,
     buckets             |-> <<>>,
     request_history     |-> <<>>,
     last_cleanup        |-> t]

\* self.endpoint_limits.get(endpoint, self.requests_per_minute)
endpoint_limits(L, endpoint) ==
    CASE endpoint = "websocket_message" -> L.requests_per_minute
      [] endpoint = "api_request"       -> L.requests_per_minute * 2
      [] endpoint = "login"             -> login_limit
      [] endpoint = "feedback"          -> L.requests_per_minute \div 2
      [] OTHER                          -> L.requests_per_minute

\* float(limit) tokens, last refilled now
NewBucket(limit, current_time) ==
    [tokens |-> limit * TokenScale, last_refill |-> current_time]

\* the refill with the cap at limit + burst left out
_refill_bucket_uncapped(L, bucket, limit, current_time) ==
    [tokens      |-> bucket.tokens + (current_time - bucket.last_refill) * limit,
     last_refill |-> current_time]

\* the refill at limit tokens per hour instead of per minute
_refill_bucket_hourly(L, bucket, limit, current_time) ==
    LET time_elapsed  == current_time - bucket.last_refill
        tokens_to_add == (time_elapsed * limit) \div 60
        max_tokens    == (limit + L.burst_allowance) * TokenScale
    IN  [tokens      |-> Min(max_tokens, bucket.tokens + tokens_to_add),
         last_refill |-> current_time]

_refill_bucket(L, bucket, limit, current_time) ==
    LET time_elapsed  == current_time - bucket.last_refill
        tokens_to_add == time_elapsed * limit
        max_tokens    == (limit + L.burst_allowance) * TokenScale
    IN  [tokens      |-> Min(max_tokens, bucket.tokens + tokens_to_add),
         last_refill |-> current_time]

_log_request(history, user_id, endpoint, timestamp, allowed) ==
    LET cutoff_time == timestamp - retention
        Recent(entry) == entry.timestamp > cutoff_time
        old == IF user_id \in DOMAIN history THEN history[user_id] ELSE <<>>
    IN  Put(history, user_id,
            Append(SelectSeq(old, Recent),
                   [endpoint |-> endpoint, timestamp |-> timestamp,
                    allowed |-> allowed]))

\* the sweep deleting every bucket, whatever its age
_cleanup_old_entries_all(L, current_time) ==
    LET cutoff_time == current_time - retention
        Recent(entry) == entry.timestamp > cutoff_time
        pruned == [u \in DOMAIN L.request_history |->
                      SelectSeq(L.request_history[u], Recent)]
        hist == [u \in {x \in DOMAIN pruned : pruned[x] # <<>>} |-> pruned[u]]
    IN  [L EXCEPT !.request_history = hist, !.buckets = <<>>]

\* the sweep with the entries of users left without a bucket kept
_cleanup_old_entries_keep_users(L, current_time) ==
    LET cutoff_time == current_time - retention
        Recent(entry) == entry.timestamp > cutoff_time
        pruned == [u \in DOMAIN L.request_history |->
                      SelectSeq(L.request_history[u], Recent)]
        hist == [u \in {x \in DOMAIN pruned : pruned[x] # <<>>} |-> pruned[u]]
        Active(u) == {e \in DOMAIN L.buckets[u] :
                        ~ (current_time - L.buckets[u][e].last_refill > retention)}
        bks == [u \in DOMAIN L.buckets |-> [e \in Active(u) |-> L.buckets[u][e]]]
    IN  [L EXCEPT !.request_history = hist, !.buckets = bks]

_cleanup_old_entries(L, current_time) ==
    LET cutoff_time == current_time - retention
        Recent(entry) == entry.timestamp > cutoff_time
        pruned == [u \in DOMAIN L.request_history |->
                      SelectSeq(L.request_history[u], Recent)]
        hist == [u \in {x \in DOMAIN pruned : pruned[x] # <<>>} |-> pruned[u]]
        Active(u) == {e \in DOMAIN L.buckets[u] :
                        ~ (current_time - L.buckets[u][e].last_refill > retention)}
        bks == [u \in {x \in DOMAIN L.buckets : Active(x) # {}} |->
                   [e \in Active(u) |-> L.buckets[u][e]]]
    IN  [L EXCEPT !.request_history = hist, !.buckets = bks]

\* check_rate_limit taking the token before the test, so that a denied
\* check consumes one too
check_rate_limit_eager(L, user_id, endpoint, current_time) ==
    LET L1 == IF current_time - L.last_cleanup > cleanup_interval
              THEN [_cleanup_old_entries(L, current_time)
                        EXCEPT !.last_cleanup = current_time]
              ELSE L
        limit == endpoint_limits(L, endpoint)
        mine == IF user_id \in DOMAIN L1.buckets THEN L1.buckets[user_id] ELSE <<>>
        bucket0 == IF endpoint \in DOMAIN mine THEN mine[endpoint]
                   ELSE NewBucket(limit, current_time)
        bucket1 == _refill_bucket(L, bucket0, limit, current_time)
        allowed == bucket1.tokens >= TokenScale
        bucket2 == [bucket1 EXCEPT !.tokens = @ - TokenScale]
    IN  [rl |-> [L1 EXCEPT
                   !.buckets = Put(L1.buckets, user_id, Put(mine, endpoint, bucket2)),
                   !.request_history =
                       _log_request(L1.request_history, user_id, endpoint,
                                    current_time, allowed)],
         allowed |-> allowed,
         raised  |-> IF allowed THEN "none" ELSE "RateLimitExceeded",
         limit   |-> limit,
         tokens_remaining |-> bucket1.tokens]

check_rate_limit(L, user_id, endpoint, current_time) ==
    LET L1 == IF current_time - L.last_cleanup > cleanup_interval
              THEN [_cleanup_old_entries(L, current_time)
                        EXCEPT !.last_cleanup = current_time]
              ELSE L
        limit == endpoint_limits(L, endpoint)
        mine == IF user_id \in DOMAIN L1.buckets THEN L1.buckets[user_id] ELSE <<>>
        bucket0 == IF endpoint \in DOMAIN mine THEN mine[endpoint]
                   ELSE NewBucket(limit, current_time)
        bucket1 == _refill_bucket(L, bucket0, limit, current_time)
        allowed == bucket1.tokens >= TokenScale
        bucket2 == IF allowed THEN [bucket1 EXCEPT !.tokens = @ - TokenScale]
                   ELSE bucket1
    IN  [rl |-> [L1 EXCEPT
                   !.buckets = Put(L1.buckets, user_id, Put(mine, endpoint, bucket2)),
                   !.request_history =
                       _log_request(L1.request_history, user_id, endpoint,
                                    current_time, allowed)],
         allowed |-> allowed,
         raised  |-> IF allowed THEN "none" ELSE "RateLimitExceeded",
         limit   |-> limit,
         tokens_remaining |-> bucket1.tokens]

get_user_stats(L, user_id, current_time) ==
    LET mine == IF user_id \in DOMAIN L.buckets THEN L.buckets[user_id] ELSE <<>>
        refilled == [e \in DOMAIN mine |->
                        _refill_bucket(L, mine[e], endpoint_limits(L, e), current_time)]
    IN  IF user_id \in DOMAIN L.buckets
        THEN [L EXCEPT !.buckets = Put(L.buckets, user_id, refilled)]
        ELSE L

\* a reset that cleared the whole limiter would release every user
reset_user_limits_everyone(L, user_id, endpoint, current_time) ==
    IF endpoint # None
    THEN IF user_id \in DOMAIN L.buckets /\ endpoint \in DOMAIN L.buckets[user_id]
         THEN [L EXCEPT !.buckets[user_id][endpoint] =
                            NewBucket(endpoint_limits(L, endpoint), current_time)]
         ELSE L
    ELSE [L EXCEPT !.buckets = <<>>, !.request_history = <<>>]

reset_user_limits(L, user_id, endpoint, current_time) ==
    IF endpoint # None
    THEN IF user_id \in DOMAIN L.buckets /\ endpoint \in DOMAIN L.buckets[user_id]
         THEN [L EXCEPT !.buckets[user_id][endpoint] =
                            NewBucket(endpoint_limits(L, endpoint), current_time)]
         ELSE L
    ELSE [L EXCEPT !.buckets = Remove(L.buckets, user_id),
                   !.request_history = Remove(L.request_history, user_id)]

\* is_user_blocked answering from a look at the bucket, the limiter untouched
is_user_blocked_peek(L, user_id, endpoint, current_time) ==
    LET r == check_rate_limit(L, user_id, endpoint, current_time)
    IN  [rl |-> L, blocked |-> ~ r.allowed]

is_user_blocked(L, user_id, endpoint, current_time) ==
    LET r == check_rate_limit(L, user_id, endpoint, current_time)
    IN  [rl |-> r.rl, blocked |-> ~ r.allowed]

\* ------------------------------------------------------------ the machine
Sockets == {"w1", "w2", "w3"}

\* a WebSocket the server has not yet accepted; alive: the peer still reads
NewWebSocket == [state |-> "connecting", code |-> 0, reason |-> "", alive |-> TRUE]

NoRegistryOp == [op |-> "none", websocket |-> "", session_id |-> 0, calls |-> <<>>,
                 raised |-> "none"]

NoResult ==
    [op |-> "none", user |-> None, endpoint |-> None, allowed |-> FALSE,
     raised |-> "none", limit |-> 0, tokens_remaining |-> 0, time |-> 0]

\* the locals of a broadcast that has not been called: index is the position
\* of the list iterator, target the socket whose send_json is awaited, sent
\* the sockets whose send_json has returned, members the list when the
\* broadcast was called
NoCast == [pc |-> "idle", session_id |-> 0, index |-> 0, target |-> "",
           disconnected |-> <<>>, sent |-> <<>>, members |-> <<>>,
           raised |-> "none"]

\* websocket_endpoint before connect has been awaited: nothing received;
\* pending: the awaits still ahead of the message being handled, check: the
\* rate_info its handler holds, cast: the broadcast its handler has called
NewWorker == [pc |-> "connect", received |-> 0, started |-> 0, finished |-> 0,
              pending |-> <<>>, check |-> NoResult, cast |-> NoCast]

HistLen(L, u) ==
    IF u \in DOMAIN L.request_history THEN Len(L.request_history[u]) ELSE 0

NoManager == [class |-> "none", db_awaitable |-> FALSE]

\* DataMasker.patterns in the order of the dict and of each category's list.
\* A compiled pattern is told by what it matches: lead is the keyword it
\* starts with ("none" when it has none), body the shapes of the words its
\* remaining part matches from one word boundary to the next (d6: six
\* digits, L2: two letters)
patterns ==
    << [category |-> "ACCOUNT", source |-> "\\bAC-\\d{6}\\b",
        lead |-> "none",    body |-> {"AC-d6"}],
       [category |-> "ACCOUNT", source |-> "\\bACCT-\\d{6,10}\\b",
        lead |-> "none",    body |-> {}],
       [category |-> "ACCOUNT", source |-> "\\bAccount...(\\d{6,12})\\b",
        lead |-> "account", body |-> {"d6"}],
       [category |-> "CARD",    source |-> "\\b\\d{4}[-\\s]?...\\d{4}\\b",
        lead |-> "none",    body |-> {"d16"}],
       [category |-> "CARD",    source |-> "\\b\\d{15,16}\\b",
        lead |-> "none",    body |-> {"d16"}],
       [category |-> "PHONE",   source |-> "\\b\\d{3}[-.\\s]?\\d{3}[-.\\s]?\\d{4}\\b",
        lead |-> "none",    body |-> {"d3-d3-d4"}],
       [category |-> "PHONE",   source |-> "\\(\\d{3}\\)\\s*\\d{3}[-.\\s]?\\d{4}\\b",
        lead |-> "none",    body |-> {}],
       [category |-> "PHONE",   source |-> "\\b1[-.\\s]?\\d{3}[-.\\s]?\\d{3}[-.\\s]?\\d{4}\\b",
        lead |-> "none",    body |-> {}],
       [category |-> "EMAIL",   source |-> "\\b[A-Za-z0-9._%+-]+@[A-Za-z0-9.-]+\\.[A-Z|a-z]{2,}\\b",
        lead |-> "none",    body |-> {"email"}],
       [category |-> "SSN",     source |-> "\\b\\d{3}[-.\\s]?\\d{2}[-.\\s]?\\d{4}\\b",
        lead |-> "none",    body |-> {"d3-d2-d4"}],
       [category |-> "SSN",     source |-> "\\bSSN\\s*:?\\s*\\d{3}[-.\\s]?\\d{2}[-.\\s]?\\d{4}\\b",
        lead |-> "ssn",     body |-> {"d3-d2-d4"}],
       [category |-> "POLICY",  source |-> "\\bP-\\d{6}\\b",
        lead |-> "none",    body |-> {"P-d6"}],
       [category |-> "POLICY",  source |-> "\\bPolicy...([A-Z]{1,3}-?\\d{6,10})\\b",
        lead |-> "policy",  body |-> {"L2-d7", "P-d6", "AC-d6"}] >>

\* the patterns handed to add_custom_pattern: the employee id of the tests,
\* a second e-mail pattern, and one that does not compile
CustomPatterns ==
    { [source |-> "\\bEMP-\\d{4}\\b", lead |-> "none", body |-> {"EMP-d4"}],
      [source |-> "\\S+@b\\.com",       lead |-> "none", body |-> {"email"}],
      [source |-> "[unclosed",          lead |-> "none", body |-> {}] }

\* re.compile(pattern, re.IGNORECASE): re.error on a pattern that is no
\* regular expression
Compiles(pattern) == pattern # "[unclosed"

re_compile(category, pattern) ==
    LET known == {[source |-> patterns[k].source, lead |-> patterns[k].lead,
                   body |-> patterns[k].body] : k \in DOMAIN patterns}
                 \cup CustomPatterns
        compiled == CHOOSE c \in known : c.source = pattern
    IN  [category |-> category, source |-> pattern,
         lead |-> compiled.lead, body |-> compiled.body]

\* _compile_patterns: every pattern of the table, compiled again
_compile_patterns(table) ==
    [k \in DOMAIN table |-> re_compile(table[k].category, table[k].source)]

\* DataMasker(): masking_enabled from ENABLE_MASKING, the built-in patterns
DataMasker(masking_enabled) ==
    [masking_enabled |-> masking_enabled,
     patterns |-> [k \in DOMAIN patterns |->
                     [category |-> patterns[k].category,
                      source |-> patterns[k].source]],
     compiled_patterns |-> patterns]

NoOutcome ==
    [handled |-> FALSE, type |-> None,
     content |-> [kind |-> "none", text |-> <<>>, pad |-> 0], metadata |-> "empty",
     user_id |-> None, security |-> "none", error_code |-> "none",
     propagated |-> "none"]

\* the state after construction, for the configured requests per minute,
\* with an audit log drawn from logs
InitMasked(rpms, managers, logs, maskers) ==
    /\ now = 0
    /\ ticks = 0
    /\ \E rpm \in rpms, burst \in BurstValues :
          rate_limiter = RateLimiterInit(rpm, burst, 0)
    /\ result = NoResult
    /\ shadow = rate_limiter
    /\ shadow_result = NoResult
    /\ admissions = <<>>
    /\ manager \in managers
    /\ security_events \in logs
    /\ effects = <<>>
    /\ outcome = NoOutcome
    /\ masker \in maskers
    /\ active_connections = <<>>
    /\ websockets = [w \in Sockets |-> NewWebSocket]
    /\ registry_op = NoRegistryOp
    /\ workers = [w \in Sockets |-> NewWorker]

InitLogged(rpms, managers, logs) ==
    InitMasked(rpms, managers, logs, {DataMasker(TRUE)})

InitWith(rpms, managers) == InitLogged(rpms, managers, {<<>>})

Init == InitWith(RpmValues, {NoManager})

Tick(d) ==
    /\ now' = now + d
    /\ ticks' = ticks + 1
    /\ UNCHANGED <<rate_limiter, result, shadow, shadow_result, admissions, pipeVars,
                   connVars>>

CheckRateLimit(u, e) ==
    LET r == check_rate_limit(rate_limiter, u, e, now)
    IN  /\ rate_limiter' = r.rl
        /\ result' = [op |-> "check_rate_limit", user |-> u, endpoint |-> e,
                      allowed |-> r.allowed, raised |-> r.raised,
                      limit |-> r.limit, tokens_remaining |-> r.tokens_remaining,
                      time |-> now]
        /\ UNCHANGED <<now, ticks, shadow, shadow_result, admissions, pipeVars, connVars>>

GetUserStats(u) ==
    /\ rate_limiter' = get_user_stats(rate_limiter, u, now)
    /\ result' = [NoResult EXCEPT !.op = "get_user_stats", !.user = u, !.time = now]
    /\ UNCHANGED <<now, ticks, shadow, shadow_result, admissions, pipeVars, connVars>>

ResetUserLimits(u, e) ==
    /\ rate_limiter' = reset_user_limits(rate_limiter, u, e, now)
    /\ result' = [NoResult EXCEPT !.op = "reset_user_limits", !.user = u,
                                  !.endpoint = e, !.time = now]
    /\ UNCHANGED <<now, ticks, shadow, shadow_result, admissions, pipeVars, connVars>>

IsUserBlocked(u, e) ==
    LET r == is_user_blocked(rate_limiter, u, e, now)
    IN  /\ rate_limiter' = r.rl
        /\ result' = [NoResult EXCEPT !.op = "is_user_blocked", !.user = u,
                                      !.endpoint = e, !.allowed = ~ r.blocked,
                                      !.time = now]
        /\ UNCHANGED <<now, ticks, shadow, shadow_result, admissions, pipeVars, connVars>>

CleanupOldEntries ==
    /\ rate_limiter' = _cleanup_old_entries(rate_limiter, now)
    /\ result' = [NoResult EXCEPT !.op = "_cleanup_old_entries", !.time = now]
    /\ UNCHANGED <<now, ticks, shadow, shadow_result, admissions, pipeVars, connVars>>

TickSteps == {20, 301, 3601}

Next ==
    \/ \E d \in TickSteps : ticks < MaxTicks /\ Tick(d)
    \/ \E u \in Users, e \in Endpoints :
          HistLen(rate_limiter, u) < MaxHist /\ CheckRateLimit(u, e)
    \/ \E u \in Users : GetUserStats(u)
    \/ \E u \in Users, e \in Endpoints \cup {None} : ResetUserLimits(u, e)
    \/ \E u \in Users, e \in Endpoints :
          HistLen(rate_limiter, u) < MaxHist /\ IsUserBlocked(u, e)
    \/ CleanupOldEntries

Spec == Init /\ [][Next]_vars

\* one limiter of 2 requests per minute under every call of its interface,
\* the clock moving by a part of a refill period or beyond the retention
MaxLimiterTicks == 2
MaxLimiterHist == 2

LimiterTickSteps == {20, 3601}

InitLimiter == InitWith({2}, {NoManager})

LimiterNext ==
    \/ \E d \in LimiterTickSteps : ticks < MaxLimiterTicks /\ Tick(d)
    \/ \E u \in Users, e \in Endpoints :
          HistLen(rate_limiter, u) < MaxLimiterHist /\ CheckRateLimit(u, e)
    \/ \E u \in Users : GetUserStats(u)
    \/ \E u \in Users, e \in Endpoints \cup {None} : ResetUserLimits(u, e)
    \/ \E u \in Users, e \in Endpoints :
          HistLen(rate_limiter, u) < MaxLimiterHist /\ IsUserBlocked(u, e)
    \/ CleanupOldEntries

SpecLimiter == InitLimiter /\ [][LimiterNext]_vars

\* ------------------------------------------------ two runs side by side
\* The same calls are fed to rate_limiter and to shadow, except that the
\* calls of Other reach rate_limiter only: shadow is the execution with
\* Other's calls removed.
Victim == "alice"
Other == "bob"
IsoTickSteps == {250, 3200}

IsoCheckVictim(e) ==
    LET r == check_rate_limit(rate_limiter, Victim, e, now)
        q == check_rate_limit(shadow, Victim, e, now)
    IN  /\ rate_limiter' = r.rl
        /\ shadow' = q.rl
        /\ result' = [op |-> "check_rate_limit", user |-> Victim, endpoint |-> e,
                      allowed |-> r.allowed, raised |-> r.raised,
                      limit |-> r.limit, tokens_remaining |-> r.tokens_remaining,
                      time |-> now]
        /\ shadow_result' =
                     [op |-> "check_rate_limit", user |-> Victim, endpoint |-> e,
                      allowed |-> q.allowed, raised |-> q.raised,
                      limit |-> q.limit, tokens_remaining |-> q.tokens_remaining,
                      time |-> now]
        /\ UNCHANGED <<now, ticks, admissions, pipeVars, connVars>>

IsoNext ==
    \/ \E d \in IsoTickSteps : ticks < MaxIsoTicks /\ Tick(d)
    \/ \E e \in Endpoints :
          HistLen(rate_limiter, Victim) < MaxIsoHist /\ IsoCheckVictim(e)
    \/ HistLen(rate_limiter, Other) < MaxIsoHist
          /\ CheckRateLimit(Other, "websocket_message")

InitIso == InitWith({2}, {NoManager})

SpecIso == InitIso /\ [][IsoNext]_vars

\* ------------------------------------- one fresh user on one endpoint
BurstTickSteps == {20, 60}

InitBurst == InitWith({20}, {NoManager})

BurstNext ==
    \/ \E d \in BurstTickSteps : ticks < MaxBurstTicks /\ Tick(d)
    \/ HistLen(rate_limiter, Victim) < MaxBurstHist
          /\ CheckRateLimit(Victim, "websocket_message")

SpecBurst == InitBurst /\ [][BurstNext]_vars

\* ------------------------------------------------------ message contents
\* A message content is None, a number, a list or a string.  A string is a
\* sequence of words (text) separated by single spaces and followed by pad
\* filler characters; the words are the spans the validator's and the
\* masker's patterns tell apart.
max_message_length == 2000
max_metadata_size == 1000
llm_context_limit == 1500
max_security_events == 1000
kept_security_events == 500

Str(text, pad) == [kind |-> "str", text |-> text, pad |-> pad]
Text(word) == Str(<<word>>, 0)
NoneContent == [kind |-> "none", text |-> <<>>, pad |-> 0]
NumberContent == [kind |-> "number", text |-> <<>>, pad |-> 0]

\* len(word)
TokLen(tok) ==
    CASE tok = "hello" -> 5
      [] tok = "AC-123456" -> 9
      [] tok = "a@b.com" -> 7
      [] tok = "<script>alert(1)</script>" -> 25
      [] tok = "ignore previous instructions" -> 28
      [] tok = "<b>" -> 3
      [] tok = "&lt;b&gt;" -> 9
      [] tok = "&amp;lt;b&amp;gt;" -> 17
      [] tok = "[BLOCKED]" -> 9
      [] tok = "{{ACCOUNT}}" -> 11
      [] tok = "{{EMAIL}}" -> 9
      [] tok = "Rate limit exceeded. Please wait before sending another message." -> 64
      [] tok = "Message validation failed. Please check your input." -> 51
      [] tok = "Security processing failed. Please try again." -> 45
      [] tok = "An error occurred processing your message" -> 41
      [] tok = "Error processing your message. Please try again." -> 48
      [] tok = "Message received and processed securely" -> 39
      [] tok = "Message received" -> 16
      [] tok = "Your message contains content that cannot be processed by our AI system." -> 72
      [] tok = "Unknown message type:" -> 21
      [] tok = "Error processing message:" -> 25
      [] tok = "Session not found" -> 17
      [] tok = "Starting session for scenario:" -> 30
      [] tok = "DatabaseError" -> 13
      [] tok = "test account" -> 12
      [] tok = "demo card" -> 9
      [] tok = "{{CARD}}" -> 8
      [] tok = "{{PHONE}}" -> 9
      [] tok = "{{SSN}}" -> 7
      [] tok = "{{POLICY}}" -> 10
      [] tok = "123456" -> 6
      [] tok = "1234567890123456" -> 16
      [] tok = "555-123-4567" -> 12
      [] tok = "123-45-6789" -> 11
      [] tok = "P-789456" -> 8
      [] tok = "AB-1234567" -> 10
      [] tok = "EMP-1234" -> 8
      [] tok = "{{EMPLOYEE_ID}}" -> 15
      [] tok = "Account" -> 7
      [] tok = "ACCOUNT" -> 7
      [] tok = "SSN" -> 3
      [] tok = "Policy" -> 6
      [] tok = "POLICY" -> 6
      [] tok = "test" -> 4
      [] tok = "account" -> 7
      [] tok = "demo" -> 4
      [] tok = "TypeError" -> 9
      [] tok = "ping" -> 4
      [] tok = "unhashable" -> 10
      [] tok = "A...A (2000)" -> 2000
      [] OTHER -> 1

RECURSIVE SumLen(_)
SumLen(text) == IF text = <<>> THEN 0 ELSE TokLen(Head(text)) + SumLen(Tail(text))

\* len(content): the words, single spaces between them, and the filler
PyLen(c) ==
    IF c.kind = "str"
    THEN LET words == Len(c.text) + (IF c.pad > 0 THEN 1 ELSE 0)
         IN  SumLen(c.text) + c.pad + (IF words > 0 THEN words - 1 ELSE 0)
    ELSE 0

\* bool(content)
Truthy(c) ==
    CASE c.kind = "none"   -> FALSE
      [] c.kind = "number" -> TRUE
      [] OTHER             -> PyLen(c) > 0

\* the words matched by InputValidator.malicious_patterns
Malicious(tok) == tok \in {"<script>alert(1)</script>"}

\* the pattern check finding the matches and leaving them in the text
_check_malicious_patterns_keep(text) == text

_check_malicious_patterns(text) ==
    [i \in DOMAIN text |-> IF Malicious(text[i]) THEN "[BLOCKED]" ELSE text[i]]

\* html.escape on a word; no path of the orchestrators escapes a content
\* more than twice
_sanitize_html(text) ==
    [i \in DOMAIN text |->
        CASE text[i] = "<b>" -> "&lt;b&gt;"
          [] text[i] = "&lt;b&gt;" -> "&amp;lt;b&amp;gt;"
          [] OTHER -> text[i]]

\* metadata: {} | a dict whose str() exceeds max_metadata_size
_validate_metadata(metadata) ==
    IF metadata = "oversized" THEN "ValidationError" ELSE "none"

validate_message(content, metadata) ==
    LET blocked == {i \in DOMAIN content.text : Malicious(content.text[i])}
        sanitized == [content EXCEPT
                         !.text = _sanitize_html(_check_malicious_patterns(@))]
        fail(exc) == [raised |-> exc, sanitized |-> content, blocked_patterns |-> 0]
    IN  IF Truthy(content) /\ content.kind = "number" THEN fail("TypeError")
        ELSE IF content.kind = "none" THEN fail("ValidationError")
        ELSE IF content.kind # "str" THEN fail("ValidationError")
        ELSE IF PyLen(content) > max_message_length THEN fail("ValidationError")
        ELSE IF metadata # "empty" /\ _validate_metadata(metadata) # "none"
             THEN fail(_validate_metadata(metadata))
        ELSE [raised |-> "none", sanitized |-> sanitized,
              blocked_patterns |-> Cardinality(blocked)]

\* the words matched by the injection_patterns of is_safe_for_llm
Injection(tok) == tok \in {"ignore previous instructions"}

is_safe_for_llm(content) ==
    /\ ~ (PyLen(content) > llm_context_limit)
    /\ \A i \in DOMAIN content.text : ~ Injection(content.text[i])

\* DataMasker.patterns, compiled with re.IGNORECASE. A text is its words
\* joined by single spaces; Shape is what the patterns can tell about a word
\* (d6: six digits, L2: two letters), Keyword the word a pattern or an
\* exclusion phrase begins with, compared without case. A placeholder such
\* as {{ACCOUNT}} is a word of its own: its braces keep the category name
\* inside it from meeting the digits of the next word.
Shape(tok) ==
    CASE tok = "AC-123456"        -> "AC-d6"
      [] tok = "123456"           -> "d6"
      [] tok = "1234567890123456" -> "d16"
      [] tok = "555-123-4567"     -> "d3-d3-d4"
      [] tok = "a@b.com"          -> "email"
      [] tok = "123-45-6789"      -> "d3-d2-d4"
      [] tok = "P-789456"         -> "P-d6"
      [] tok = "AB-1234567"       -> "L2-d7"
      [] tok = "EMP-1234"         -> "EMP-d4"
      [] OTHER                    -> "word"

Keyword(tok) ==
    CASE tok \in {"Account", "ACCOUNT", "account"} -> "account"
      [] tok \in {"SSN"}                -> "ssn"
      [] tok \in {"Policy", "POLICY"}   -> "policy"
      [] tok \in {"test"}               -> "test"
      [] OTHER                          -> "none"

\* an exclusion phrase kept as one word ends in a word of its own
LastWord(tok) ==
    CASE tok = "test account" -> "account"
      [] tok = "demo card"    -> "card"
      [] OTHER                -> tok

FirstWords(tok) ==
    CASE tok = "test account" -> <<"test">>
      [] tok = "demo card"    -> <<"demo">>
      [] OTHER                -> <<>>

\* f"{{{{{category}}}}}"
Placeholder_bare(category) ==
    CASE category = "ACCOUNT" -> "ACCOUNT"
      [] category = "CARD"    -> "CARD"
      [] category = "PHONE"   -> "PHONE"
      [] category = "EMAIL"   -> "EMAIL"
      [] category = "SSN"     -> "SSN"
      [] category = "POLICY"  -> "POLICY"
      [] category = "EMPLOYEE_ID" -> "EMPLOYEE_ID"
      [] OTHER                -> "?"

Placeholder(category) ==
    CASE category = "ACCOUNT" -> "{{ACCOUNT}}"
      [] category = "CARD"    -> "{{CARD}}"
      [] category = "PHONE"   -> "{{PHONE}}"
      [] category = "EMAIL"   -> "{{EMAIL}}"
      [] category = "SSN"     -> "{{SSN}}"
      [] category = "POLICY"  -> "{{POLICY}}"
      [] category = "EMPLOYEE_ID" -> "{{EMPLOYEE_ID}}"
      [] OTHER                -> "{{?}}"

\* how many words the pattern matches from word i on (0: no match there)
MatchLen(pattern, text, i) ==
    IF pattern.lead = "none"
    THEN IF Shape(text[i]) \in pattern.body THEN 1 ELSE 0
    ELSE IF /\ Keyword(LastWord(text[i])) = pattern.lead
            /\ i < Len(text)
            /\ Shape(text[i + 1]) \in pattern.body
         THEN 2 ELSE 0

\* pattern.findall(masked_text): the leftmost matches that do not overlap
RECURSIVE findall(_, _, _)
findall(pattern, text, i) ==
    IF i > Len(text) THEN <<>>
    ELSE IF MatchLen(pattern, text, i) = 0 THEN findall(pattern, text, i + 1)
    ELSE <<i>> \o findall(pattern, text, i + MatchLen(pattern, text, i))

\* pattern.sub(placeholder, masked_text)
RECURSIVE sub(_, _, _, _)
sub(pattern, repl, text, i) ==
    IF i > Len(text) THEN <<>>
    ELSE IF MatchLen(pattern, text, i) = 0
    THEN <<text[i]>> \o sub(pattern, repl, text, i + 1)
    ELSE (IF pattern.lead = "none" THEN <<>> ELSE FirstWords(text[i]))
         \o <<repl>> \o sub(pattern, repl, text, i + MatchLen(pattern, text, i))

\* for match in matches: masked_text = pattern.sub(...)
RECURSIVE SubEach(_, _, _, _)
SubEach(pattern, repl, text, n) ==
    IF n = 0 THEN text
    ELSE SubEach(pattern, repl, sub(pattern, repl, text, 1), n - 1)

\* one pattern's turn: an entry of the log for each match found (category
\* and pattern; the length and the timestamp are left out)
ApplyPattern(pattern, n, st) ==
    [text |-> SubEach(pattern, Placeholder(pattern.category), st.text, n),
     log  |-> st.log \o [j \in 1..n |->
                            [category |-> pattern.category,
                             pattern |-> pattern.source]]]

\* for category, compiled_patterns in self.compiled_patterns.items(): ...
RECURSIVE ApplyPatterns(_, _, _)
ApplyPatterns(compiled_patterns, k, st) ==
    IF k > Len(compiled_patterns) THEN st
    ELSE ApplyPatterns(compiled_patterns, k + 1,
            ApplyPattern(compiled_patterns[k],
                         Len(findall(compiled_patterns[k], st.text, 1)), st))

\* exclusion_contexts: test\s+account in one word or across two words, and
\* demo\s+card
_is_excluded_context_match(content) ==
    \E i \in DOMAIN content.text :
        /\ i = 1
        /\ \/ content.text[i] \in {"test account", "demo card"}
           \/ /\ Keyword(content.text[i]) = "test"
              /\ i < Len(content.text)
              /\ Keyword(content.text[i + 1]) = "account"

_is_excluded_context(content) ==
    \E i \in DOMAIN content.text :
        \/ content.text[i] \in {"test account", "demo card"}
        \/ /\ Keyword(content.text[i]) = "test"
           /\ i < Len(content.text)
           /\ Keyword(content.text[i + 1]) = "account"

Masked(content, st, raised) ==
    [masked |-> [content EXCEPT !.text = st.text], masking_log |-> st.log,
     raised |-> raised]

\* a number that is not zero gets past "not text" and fails in the first
\* pattern.search or pattern.findall
mask_sensitive_data(self, preserve_context, content) ==
    IF ~ self.masking_enabled \/ ~ Truthy(content)
    THEN Masked(content, [text |-> content.text, log |-> <<>>], "none")
    ELSE IF content.kind = "number"
    THEN Masked(content, [text |-> content.text, log |-> <<>>], "TypeError")
    ELSE IF preserve_context /\ _is_excluded_context(content)
    THEN Masked(content, [text |-> content.text, log |-> <<>>], "none")
    ELSE Masked(content,
                ApplyPatterns(self.compiled_patterns, 1,
                              [text |-> content.text, log |-> <<>>]), "none")

\* self.patterns[category].append(pattern): at the end of the category's
\* list, the category itself at the end of the dict when it is new
AppendTo(table, entry) ==
    LET same == {k \in DOMAIN table : table[k].category = entry.category}
        last == CHOOSE k \in same : \A j \in same : j <= k
    IN  IF same = {} THEN Append(table, entry)
        ELSE SubSeq(table, 1, last) \o <<entry>>
                \o SubSeq(table, last + 1, Len(table))

Added(self, table) ==
    [self EXCEPT !.patterns = table, !.compiled_patterns = _compile_patterns(table)]

\* add_custom_pattern with the append made before the pattern is compiled
add_custom_pattern_unchecked(self, category, pattern) ==
    [self |-> [self EXCEPT !.patterns =
                  AppendTo(@, [category |-> category, source |-> pattern])],
     returned |-> Compiles(pattern)]

add_custom_pattern(self, category, pattern) ==
    IF ~ Compiles(pattern) THEN [self |-> self, returned |-> FALSE]
    ELSE [self |-> Added(self, AppendTo(self.patterns,
                              [category |-> category, source |-> pattern])),
          returned |-> TRUE]

\* validate_session_data({"user_id": user_id, "type": message_type}):
\* the membership test in a set raises TypeError for an unhashable type
validate_session_data(message_type) ==
    IF message_type = "unhashable" THEN "TypeError" ELSE "none"

\* a log that kept its first events would lose every new one
_log_security_event_oldest(events, event_type, user_id) ==
    LET appended == Append(events, [event_type |-> event_type, user_id |-> user_id])
    IN  IF Len(appended) > max_security_events
        THEN SubSeq(appended, 1, kept_security_events)
        ELSE appended

\* the event is appended; a log of more than 1000 events is cut to its last 500
_log_security_event(events, event_type, user_id) ==
    LET appended == Append(events, [event_type |-> event_type, user_id |-> user_id])
    IN  IF Len(appended) > max_security_events
        THEN SubSeq(appended, Len(appended) - kept_security_events + 1, Len(appended))
        ELSE appended

\* ------------------------------------------------------ the orchestrators
Secure == "SecureWebSocketManager"
Plain == "WebSocketManager"

\* one call made while a message is handled
Eff(op, tag, code, content, details) ==
    [op |-> op, tag |-> tag, code |-> code, content |-> content, details |-> details]

Stage(op, raised) == Eff(op, raised, "", NoneContent, "")

\* WebSocketManager.send_message
send_message(type, code, content) == <<Eff("send_json", type, code, content, "")>>

\* the outgoing content is validated; a failure is logged and nothing is sent
send_secure_message(type, code, content, details) ==
    LET vm == validate_message(content, "empty")
    IN  IF vm.raised # "none" THEN <<>>
        ELSE <<Eff("send_json", type, code, vm.sanitized, details)>>

Send(mgr, type, code, content) ==
    IF mgr.class = Secure THEN send_secure_message(type, code, content, "")
    ELSE send_message(type, code, content)

\* the except clauses of _process_message_security mapping every other
\* exception to VALIDATION_ERROR
error_code_validation(exc) ==
    CASE exc = "RateLimitExceeded" -> "RATE_LIMIT_EXCEEDED"
      [] OTHER                     -> "VALIDATION_ERROR"

\* the except clauses of _process_message_security
error_code(exc) ==
    CASE exc = "RateLimitExceeded" -> "RATE_LIMIT_EXCEEDED"
      [] exc = "ValidationError"   -> "VALIDATION_ERROR"
      [] OTHER                     -> "SECURITY_ERROR"

error_message(code) ==
    CASE code = "RATE_LIMIT_EXCEEDED" ->
            Text("Rate limit exceeded. Please wait before sending another message.")
      [] code = "VALIDATION_ERROR" ->
            Text("Message validation failed. Please check your input.")
      [] OTHER -> Text("Security processing failed. Please try again.")

\* what _process_message_security returns when a stage raised exc
SecurityRejected(rc, events, calls, exc, content) ==
    [rl |-> rc.rl, events |-> events, calls |-> calls, allowed |-> FALSE,
     error_code |-> error_code(exc), processed_content |-> content,
     is_safe |-> FALSE, check |-> rc]

\* security_info: what the stages reported for an allowed message (the
\* timestamp left out)
SecurityInfo(user_id, rc, vm, mk, sd) ==
    [user_id |-> user_id,
     rate_limit_info |-> [tokens_remaining |-> rc.tokens_remaining,
                          limit |-> rc.limit],
     validation_report |-> [blocked_patterns |-> vm.blocked_patterns],
     masking_log |-> mk.masking_log,
     llm_safety |-> [is_safe |-> is_safe_for_llm(vm.sanitized)],
     session_validation |-> sd]

\* self._log_security_event("message_processed", security_info), as a call
\* made for the message: the data of the event travels with the call
LogProcessed(security_info) ==
    Eff("_log_security_event", "none", "", NoneContent, security_info)

\* the stages with the sanitized content returned in place of the masked one
SecurityStages_sanitized(class, events, user_id, content, rc, vm, sd, mk) ==
    LET s1 == <<Stage("check_rate_limit", rc.raised)>>
        s2 == Append(s1, Stage("validate_message", vm.raised))
        s4 == s2 \o <<Stage("is_safe_for_llm", "none"),
                      Stage("mask_sensitive_data", "none")>>
        s5 == IF class = Secure THEN Append(s4, Stage("validate_session_data", sd))
              ELSE s4
    IN  IF rc.raised # "none"
        THEN SecurityRejected(rc, events, s1, rc.raised, content)
        ELSE IF vm.raised # "none"
        THEN SecurityRejected(rc, events, s2, vm.raised, content)
        ELSE IF sd # "none"
        THEN SecurityRejected(rc, events, s5, sd, content)
        ELSE [rl |-> rc.rl,
              events |-> IF class = Secure
                         THEN _log_security_event(events, "message_processed", user_id)
                         ELSE events,
              calls |-> IF class = Secure
                        THEN Append(s5, LogProcessed(
                                SecurityInfo(user_id, rc, vm, mk, sd)))
                        ELSE s5,
              allowed |-> TRUE, error_code |-> "none",
              processed_content |-> vm.sanitized,
              is_safe |-> is_safe_for_llm(vm.sanitized), check |-> rc]

\* the stages of _process_message_security one after the other, given what
\* the rate check (rc), the validation (vm) and the session validation (sd)
\* return or raise and what the masker returned (mk)
SecurityStages(class, events, user_id, content, rc, vm, sd, mk) ==
    LET s1 == <<Stage("check_rate_limit", rc.raised)>>
        s2 == Append(s1, Stage("validate_message", vm.raised))
        s4 == s2 \o <<Stage("is_safe_for_llm", "none"),
                      Stage("mask_sensitive_data", "none")>>
        s5 == IF class = Secure THEN Append(s4, Stage("validate_session_data", sd))
              ELSE s4
    IN  IF rc.raised # "none"
        THEN SecurityRejected(rc, events, s1, rc.raised, content)
        ELSE IF vm.raised # "none"
        THEN SecurityRejected(rc, events, s2, vm.raised, content)
        ELSE IF sd # "none"
        THEN SecurityRejected(rc, events, s5, sd, content)
        ELSE [rl |-> rc.rl,
              events |-> IF class = Secure
                         THEN _log_security_event(events, "message_processed", user_id)
                         ELSE events,
              calls |-> IF class = Secure
                        THEN Append(s5, LogProcessed(
                                SecurityInfo(user_id, rc, vm, mk, sd)))
                        ELSE s5,
              allowed |-> TRUE, error_code |-> "none",
              processed_content |-> mk.masked,
              is_safe |-> is_safe_for_llm(vm.sanitized), check |-> rc]

_process_message_security(class, L, events, user_id, message_type, content, metadata, t) ==
    SecurityStages(class, events, user_id, content,
                   check_rate_limit(L, user_id, "websocket_message", t),
                   validate_message(content, metadata),
                   IF class = Secure THEN validate_session_data(message_type)
                   ELSE "none",
                   mask_sensitive_data(DataMasker(TRUE), TRUE,
                       validate_message(content, metadata).sanitized))

LlmReply == Text("hello")

\* db_manager.save_message, the n-th call for this message.  The secure
\* manager awaits the result: with a db_manager whose save_message is a
\* plain function (MockDatabaseService) the message is saved and the await
\* then raises TypeError.
SaveCall(mgr, env, n, role, content) ==
    LET raised == IF env.db_fail_at = n THEN "DatabaseError"
                  ELSE IF mgr.class = Secure /\ ~ mgr.db_awaitable THEN "TypeError"
                  ELSE "none"
    IN  [call |-> Eff("save_message", role, "", content, raised), raised |-> raised]

Generate(content) == Eff("generate_response", "", "", content, "")

_handle_secure_user_message(mgr, env, content, is_safe) ==
    LET s1 == SaveCall(mgr, env, 1, "user", content)
        s2 == SaveCall(mgr, env, 2, "assistant", LlmReply)
        caught == send_secure_message("error", "",
                     Text("Error processing your message. Please try again."), "")
    IN  [raised |-> "none",
         calls |->
            IF s1.raised # "none" THEN <<s1.call>> \o caught
            ELSE <<s1.call>>
                 \o send_secure_message("message_received", "",
                        Text("Message received and processed securely"), "")
                 \o (IF ~ is_safe
                     THEN send_secure_message("safety_warning", "",
                             Text("Your message contains content that cannot be processed by our AI system."), "")
                     ELSE IF s2.raised # "none"
                     THEN <<Generate(content), s2.call>> \o caught
                     ELSE <<Generate(content), s2.call>>
                          \o send_secure_message("assistant_message", "", LlmReply, "")
                          \o send_secure_message("evaluation_feedback", "",
                                                 LlmReply, ""))]

\* broadcast_secure_message validates the content before the loop over the
\* connections, outside any try
_handle_secure_assistant_message(mgr, env, content) ==
    LET s1 == SaveCall(mgr, env, 1, "assistant", content)
        vm == validate_message(content, "empty")
    IN  IF s1.raised # "none" THEN [raised |-> s1.raised, calls |-> <<s1.call>>]
        ELSE IF vm.raised # "none" THEN [raised |-> vm.raised, calls |-> <<s1.call>>]
        ELSE [raised |-> "none",
              calls |-> <<s1.call,
                          Eff("broadcast", "assistant_message", "", vm.sanitized, "")>>]

_handle_unknown_message(mgr, message_type) ==
    [raised |-> "none",
     calls |-> Send(mgr, "error", "", Str(<<"Unknown message type:", message_type>>, 0))]

_handle_session_start(env) ==
    [raised |-> "none",
     calls |-> IF env.session_exists
               THEN send_message("session_info", "",
                                 Text("Starting session for scenario:"))
               ELSE send_message("error", "", Text("Session not found"))]

_handle_user_message(mgr, env, content) ==
    LET s1 == SaveCall(mgr, env, 1, "user", content)
        s2 == SaveCall(mgr, env, 2, "assistant", LlmReply)
        received == send_message("message_received", "", Text("Message received"))
    IN  IF s1.raised # "none" THEN [raised |-> s1.raised, calls |-> <<s1.call>>]
        ELSE IF s2.raised # "none"
        THEN [raised |-> s2.raised,
              calls |-> <<s1.call>> \o received \o <<Generate(content), s2.call>>]
        ELSE [raised |-> "none",
              calls |-> <<s1.call>> \o received \o <<Generate(content), s2.call>>
                        \o send_message("assistant_message", "", LlmReply)
                        \o send_message("evaluation_feedback", "", LlmReply)]

_handle_assistant_message(mgr, env, content) ==
    LET s1 == SaveCall(mgr, env, 1, "assistant", content)
    IN  IF s1.raised # "none" THEN [raised |-> s1.raised, calls |-> <<s1.call>>]
        ELSE [raised |-> "none",
              calls |-> <<s1.call,
                          Eff("broadcast", "assistant_message", "", content, "")>>]

Dispatch(handler) == Eff("dispatch", handler, "", NoneContent, "")

\* "except Exception" around the body of handle_secure_message and of
\* handle_message: every exception the model raises derives from Exception
Propagated(raised) == "none"

\* the result of handling one message: the calls made, the pipeline's
\* verdict and the exception that leaves the method, if any
Handled(rl, events, calls, security, code, raised, check) ==
    [rl |-> rl, events |-> events, calls |-> calls, security |-> security,
     error_code |-> code, propagated |-> Propagated(raised), check |-> check]

\* the handler h has run for an allowed message; the except clause of
\* handle_secure_message answers what it raised
SecureDispatched(sec, name, h) ==
    Handled(sec.rl, sec.events,
            sec.calls \o <<Dispatch(name)>> \o h.calls
               \o (IF h.raised = "none" THEN <<>>
                   ELSE send_secure_message("error", "",
                           Text("An error occurred processing your message"),
                           h.raised)),
            "Allowed", "none", h.raised, sec.check)

SecureHandler(mgr, env, data, sec) ==
    CASE data.type = "user_message" ->
            SecureDispatched(sec, "_handle_secure_user_message",
                _handle_secure_user_message(mgr, env, sec.processed_content,
                                            sec.is_safe))
      [] data.type = "assistant_message" ->
            SecureDispatched(sec, "_handle_secure_assistant_message",
                _handle_secure_assistant_message(mgr, env, sec.processed_content))
      [] OTHER ->
            SecureDispatched(sec, "_handle_unknown_message",
                _handle_unknown_message(mgr, data.type))

\* handle_secure_message after the pipeline, without the return that
\* follows the rejection reply
SecureResponse_fallthrough(mgr, env, data, sec) ==
    IF ~ sec.allowed
    THEN Handled(sec.rl, sec.events,
                 sec.calls
                    \o send_secure_message("security_error", sec.error_code,
                                           error_message(sec.error_code), "")
                    \o _handle_secure_user_message(mgr, env, sec.processed_content,
                                                   TRUE).calls,
                 "Rejected", sec.error_code, "none", sec.check)
    ELSE SecureHandler(mgr, env, data, sec)

\* handle_secure_message after the pipeline has returned sec
SecureResponse(mgr, env, data, sec) ==
    IF ~ sec.allowed
    THEN Handled(sec.rl, sec.events,
                 sec.calls \o send_secure_message("security_error", sec.error_code,
                                                  error_message(sec.error_code), ""),
                 "Rejected", sec.error_code, "none", sec.check)
    ELSE SecureHandler(mgr, env, data, sec)

handle_secure_message(mgr, L, events, user_id, data, env, t) ==
    SecureResponse(mgr, env, data,
        _process_message_security(Secure, L, events, user_id, data.type,
                                  data.content, data.metadata, t))

\* the handler h has run; the except clause of handle_message answers what
\* it raised
PlainDispatched(rl, events, calls, security, check, name, h) ==
    Handled(rl, events,
            calls \o <<Dispatch(name)>> \o h.calls
               \o (IF h.raised = "none" THEN <<>>
                   ELSE send_message("error", "",
                           Str(<<"Error processing message:", h.raised>>, 0))),
            security, "none", h.raised, check)

PlainHandler(mgr, env, data, rl, events, calls, security, check, content) ==
    CASE data.type = "session_start" ->
            PlainDispatched(rl, events, calls, security, check,
                "_handle_session_start", _handle_session_start(env))
      [] data.type = "user_message" ->
            PlainDispatched(rl, events, calls, security, check,
                "_handle_user_message", _handle_user_message(mgr, env, content))
      [] data.type = "assistant_message" ->
            PlainDispatched(rl, events, calls, security, check,
                "_handle_assistant_message",
                _handle_assistant_message(mgr, env, content))
      [] OTHER ->
            PlainDispatched(rl, events, calls, security, check,
                "_handle_unknown_message", _handle_unknown_message(mgr, data.type))

\* handle_message after the pipeline has returned sec
PlainResponse(mgr, env, data, sec) ==
    IF ~ sec.allowed
    THEN Handled(sec.rl, sec.events,
                 sec.calls \o send_message("security_error", sec.error_code,
                                           error_message(sec.error_code)),
                 "Rejected", sec.error_code, "none", sec.check)
    ELSE PlainHandler(mgr, env, data, sec.rl, sec.events, sec.calls, "Allowed",
                      sec.check, sec.processed_content)

\* the pipeline runs only for a truthy user_id and the two chat types
handle_message(mgr, L, events, user_id, data, env, t) ==
    IF user_id # None /\ data.type \in {"user_message", "assistant_message"}
    THEN PlainResponse(mgr, env, data,
            _process_message_security(Plain, L, events, user_id, data.type,
                                      data.content, data.metadata, t))
    ELSE PlainHandler(mgr, env, data, L, events, <<>>, "none", NoResult,
                      data.content)

\* ------------------------------------------------- messages and the loop
\* the types received: the three the spec recognizes, an unknown word, an
\* unknown word of 2000 characters and a JSON list (unhashable)
MessageTypes == {"user_message", "assistant_message", "session_start", "ping",
                 "A...A (2000)", "unhashable"}
Contents == {Text("hello"), Str(<<"AC-123456", "a@b.com">>, 0),
             Str(<<"<script>alert(1)</script>", "<b>">>, 0),
             Text("ignore previous instructions"),
             Str(<<"hello">>, max_message_length - 6),
             Str(<<"hello">>, max_message_length - 5), NoneContent, NumberContent}
Metadatas == {"empty", "oversized"}
\* the two types that carry a text with every content, every type with a
\* plain text and with no content, and an oversized metadata on a content
\* that is valid by itself
Messages ==
    [type : {"user_message", "assistant_message"}, content : Contents,
     metadata : {"empty"}]
       \cup [type : MessageTypes, content : {Text("hello"), NoneContent},
             metadata : {"empty"}]
       \cup [type : {"user_message", "assistant_message"}, content : {Text("hello")},
             metadata : Metadatas]
\* the database while the message is handled: which save_message call
\* fails (0: none) and whether get_session finds the session
Envs == {[db_fail_at |-> 0, session_exists |-> TRUE],
         [db_fail_at |-> 1, session_exists |-> FALSE],
         [db_fail_at |-> 2, session_exists |-> TRUE]}
Managers == {[class |-> Secure, db_awaitable |-> FALSE],
             [class |-> Secure, db_awaitable |-> TRUE],
             [class |-> Plain, db_awaitable |-> FALSE]}
Sender == "alice"

Receive(h, data, user_id) ==
    /\ rate_limiter' = h.rl
    /\ security_events' = h.events
    /\ effects' = h.calls
    /\ outcome' = [handled |-> TRUE, type |-> data.type, content |-> data.content,
                   metadata |-> data.metadata, user_id |-> user_id,
                   security |-> h.security, error_code |-> h.error_code,
                   propagated |-> h.propagated]
    /\ result' = IF \E i \in DOMAIN h.calls : h.calls[i].op = "check_rate_limit"
                 THEN [op |-> "check_rate_limit", user |-> user_id,
                       endpoint |-> "websocket_message", allowed |-> h.check.allowed,
                       raised |-> h.check.raised, limit |-> h.check.limit,
                       tokens_remaining |-> h.check.tokens_remaining, time |-> now]
                 ELSE result
    /\ UNCHANGED <<now, ticks, shadow, shadow_result, admissions, manager, masker, connVars>>

\* one message received on a connection of the secure manager
HandleSecureMessage(data, env) ==
    /\ manager.class = Secure
    /\ \E h \in {handle_secure_message(manager, rate_limiter, security_events,
                                        Sender, data, env, now)} :
          Receive(h, data, Sender)

\* one message received by WebSocketManager.handle_message; main.py's
\* websocket_endpoint passes no user_id
HandleMessage(data, env, user_id) ==
    /\ manager.class = Plain
    /\ \E h \in {handle_message(manager, rate_limiter, security_events,
                                 user_id, data, env, now)} :
          Receive(h, data, user_id)

PipeTickSteps == {60}

InitPipe == InitWith({2}, Managers)

PipeNext ==
    \/ \E d \in PipeTickSteps : ticks < MaxPipeTicks /\ Tick(d)
    \/ \E data \in Messages, env \in Envs :
          HistLen(rate_limiter, Sender) < MaxPipeHist /\ HandleSecureMessage(data, env)
    \/ \E data \in Messages, env \in Envs, user_id \in {None, Sender} :
          HistLen(rate_limiter, Sender) < MaxPipeHist
             /\ HandleMessage(data, env, user_id)

SpecPipe == InitPipe /\ [][PipeNext]_vars

\* ---------------------------------------------------- the connection registry
Sessions == {1, 2}

\* the session_id of the URL a socket was opened on
SessionOf(w) == IF w = "w3" THEN 2 ELSE 1

rate_limited_close == 4429
error_close == 4500

\* one call made by connect, disconnect or a broadcast
RegCall(op, websocket, code, details) ==
    [op |-> op, websocket |-> websocket, code |-> code, details |-> details]

\* if session_id not in self.active_connections: ... = []; then .append(websocket)
Register(ac, session_id, w) ==
    Put(ac, session_id,
        Append(IF session_id \in DOMAIN ac THEN ac[session_id] ELSE <<>>, w))

\* list.remove(w): the list without the first occurrence of w
RECURSIVE ListRemove(_, _)
ListRemove(list, w) ==
    IF list = <<>> THEN <<>>
    ELSE IF Head(list) = w THEN Tail(list)
    ELSE <<Head(list)>> \o ListRemove(Tail(list), w)

InList(list, w) == \E i \in DOMAIN list : list[i] = w

\* websocket.close(code, reason)
Closed(sock, w, code, reason) ==
    [sock EXCEPT ![w] = [@ EXCEPT !.state = "closed", !.code = code,
                                  !.reason = reason]]

\* what connect leaves behind when it closed the socket in an except clause
ConnectFailed(L, events, ac, sock, w, calls, code, exc) ==
    [rl |-> L, events |-> events, ac |-> ac,
     sock |-> Closed(sock, w, code, exc),
     calls |-> Append(calls, RegCall("close", w, code, exc)),
     raised |-> exc]

\* connect after the rate check did not raise: accept, register, greet.
\* send_message and send_secure_message swallow a failing send_json
ConnectAccepted(class, L, events, ac, sock, w, session_id, user_id, calls, accept_ok) ==
    IF ~ accept_ok
    THEN ConnectFailed(L, events, ac, sock, w,
                       Append(calls, RegCall("accept", w, 0, "RuntimeError")),
                       error_close, "RuntimeError")
    ELSE [rl |-> L,
          events |-> IF class = Secure
                     THEN _log_security_event(events, "connection_established", user_id)
                     ELSE events,
          ac |-> Register(ac, session_id, w),
          sock |-> [sock EXCEPT ![w] = [@ EXCEPT !.state = "accepted"]],
          calls |-> calls \o <<RegCall("accept", w, 0, "none"),
                               RegCall("register", w, 0, "none"),
                               RegCall("send_json", w, 0,
                                       IF sock[w].alive THEN "none"
                                       ELSE "WebSocketDisconnect")>>,
          raised |-> "none"]

\* the rate check rc has run (or was skipped: rc.raised = "skipped")
ConnectChecked(class, L, events, ac, sock, w, session_id, user_id, accept_ok, rc) ==
    IF rc.raised = "RateLimitExceeded"
    THEN ConnectFailed(rc.rl, events, ac, sock, w,
                       <<RegCall("check_rate_limit", w, 0, rc.raised)>>,
                       rate_limited_close, rc.raised)
    ELSE ConnectAccepted(class, rc.rl, events, ac, sock, w, session_id, user_id,
                         IF rc.raised = "skipped" THEN <<>>
                         ELSE <<RegCall("check_rate_limit", w, 0, "none")>>,
                         accept_ok)

\* SecureWebSocketManager.connect checks the limiter always;
\* WebSocketManager.connect only "if user_id"
connect(class, L, events, ac, sock, w, session_id, user_id, accept_ok, t) ==
    ConnectChecked(class, L, events, ac, sock, w, session_id, user_id, accept_ok,
        IF class = Secure \/ user_id # None
        THEN check_rate_limit(L, user_id, "websocket_message", t)
        ELSE [rl |-> L, allowed |-> TRUE, raised |-> "skipped", limit |-> 0,
              tokens_remaining |-> 0])

\* the registry after disconnect(websocket, session_id)
disconnect(ac, w, session_id) ==
    IF session_id \notin DOMAIN ac THEN ac
    ELSE IF ListRemove(ac[session_id], w) = <<>> THEN Remove(ac, session_id)
    ELSE [ac EXCEPT ![session_id] = ListRemove(@, w)]

\* the sockets of list whose send_json raised
RECURSIVE Disconnected(_, _)
Disconnected(list, sock) ==
    IF list = <<>> THEN <<>>
    ELSE (IF sock[Head(list)].alive THEN <<>> ELSE <<Head(list)>>)
         \o Disconnected(Tail(list), sock)

\* the send_json calls of the loop over the session's connections
SendLoop(list, sock) ==
    [i \in DOMAIN list |->
        RegCall("send_json", list[i], 0,
                IF sock[list[i]].alive THEN "none" ELSE "WebSocketDisconnect")]

\* broadcast_to_session: self.disconnect(ws, session_id) for each failed socket
RECURSIVE DisconnectAll(_, _, _)
DisconnectAll(ac, failed, session_id) ==
    IF failed = <<>> THEN ac
    ELSE DisconnectAll(disconnect(ac, Head(failed), session_id), Tail(failed),
                       session_id)

broadcast_to_session(ac, sock, session_id) ==
    IF session_id \notin DOMAIN ac THEN [ac |-> ac, calls |-> <<>>, raised |-> "none"]
    ELSE [ac |-> DisconnectAll(ac, Disconnected(ac[session_id], sock), session_id),
          calls |-> SendLoop(ac[session_id], sock),
          raised |-> "none"]

\* broadcast_secure_message: self.active_connections[session_id].remove(ws)
\* for each failed socket; the session's entry stays
RECURSIVE RemoveAll(_, _)
RemoveAll(list, failed) ==
    IF failed = <<>> THEN list
    ELSE RemoveAll(IF InList(list, Head(failed)) THEN ListRemove(list, Head(failed))
                   ELSE list,
                   Tail(failed))

\* vm: what validate_message(message["content"]) returns or raises, before
\* the loop and outside any try
SecureBroadcast(ac, sock, session_id, vm) ==
    IF session_id \notin DOMAIN ac THEN [ac |-> ac, calls |-> <<>>, raised |-> "none"]
    ELSE IF vm.raised # "none" THEN [ac |-> ac, calls |-> <<>>, raised |-> vm.raised]
    ELSE [ac |-> [ac EXCEPT ![session_id] =
                        RemoveAll(@, Disconnected(ac[session_id], sock))],
          calls |-> SendLoop(ac[session_id], sock),
          raised |-> "none"]

broadcast_secure_message(ac, sock, session_id, content) ==
    SecureBroadcast(ac, sock, session_id, validate_message(content, "empty"))

\* ---------------------------------------------- websocket_endpoint's loop
BroadcastContents == {Text("hello"), Str(<<"hello">>, max_message_length - 4)}
ConnManagers == {[class |-> Secure, db_awaitable |-> FALSE],
                 [class |-> Plain, db_awaitable |-> FALSE]}

Registered(ac, w) == \E s \in DOMAIN ac : InList(ac[s], w)

\* await websocket_manager.connect(websocket, session_id); the loop follows
\* whether or not connect closed the socket
Connected(c, w, session_id) ==
    /\ rate_limiter' = c.rl
    /\ security_events' = c.events
    /\ active_connections' = c.ac
    /\ websockets' = c.sock
    /\ registry_op' = [op |-> "connect", websocket |-> w, session_id |-> session_id,
                       calls |-> c.calls, raised |-> c.raised]
    /\ workers' = [workers EXCEPT ![w] = [@ EXCEPT !.pc = "receive"]]
    /\ UNCHANGED <<now, ticks, result, shadow, shadow_result, admissions, manager, masker, effects,
                   outcome>>

Connect(w, user_id, accept_ok) ==
    /\ workers[w].pc = "connect"
    /\ \E c \in {connect(manager.class, rate_limiter, security_events,
                         active_connections, websockets, w, SessionOf(w), user_id,
                         accept_ok, now)} :
          Connected(c, w, SessionOf(w))

\* the peer goes away; every later send_json and receive_json on w raises
PeerLost(w) ==
    /\ websockets[w].alive
    /\ workers[w].pc # "done"
    /\ websockets' = [websockets EXCEPT ![w] = [@ EXCEPT !.alive = FALSE]]
    /\ UNCHANGED <<now, ticks, rate_limiter, result, shadow, shadow_result, admissions,
                   pipeVars, active_connections, registry_op, workers>>

\* a frame from the peer arrives on an accepted socket
Arrive(w) ==
    /\ websockets[w].state = "accepted"
    /\ websockets[w].alive
    /\ workers[w].pc \in {"receive", "handling"}
    /\ workers' = [workers EXCEPT ![w] = [@ EXCEPT !.received = @ + 1]]
    /\ UNCHANGED <<now, ticks, rate_limiter, result, shadow, shadow_result, admissions,
                   pipeVars, active_connections, websockets, registry_op>>

\* a loop that started handle_message as a task would be back at
\* receive_json while the handling is still under way
AtReceive_task(worker) == worker.pc \in {"receive", "handling"}

\* the loop is at "data = await websocket.receive_json()"
AtReceive(worker) == worker.pc = "receive"

\* receive_json returns the next frame and handle_message is entered
StartHandling(w) ==
    /\ AtReceive(workers[w])
    /\ websockets[w].state = "accepted"
    /\ workers[w].started < workers[w].received
    /\ workers' = [workers EXCEPT ![w] = [@ EXCEPT !.pc = "handling",
                                                    !.started = @ + 1]]
    /\ UNCHANGED <<now, ticks, rate_limiter, result, shadow, shadow_result, admissions,
                   pipeVars, active_connections, websockets, registry_op>>

\* "await websocket_manager.handle_message(...)" returns; the handlers catch
\* what they raise, so the loop goes on
FinishHandling(w) ==
    /\ workers[w].pc = "handling"
    /\ workers' = [workers EXCEPT ![w] = [@ EXCEPT !.pc = "receive",
                                                    !.finished = @ + 1]]
    /\ UNCHANGED <<now, ticks, rate_limiter, result, shadow, shadow_result, admissions,
                   pipeVars, active_connections, websockets, registry_op>>

\* receive_json raises on a closed socket or a lost peer once no frame is
\* left; both except clauses of websocket_endpoint call disconnect
Disconnect(w) ==
    /\ AtReceive(workers[w])
    /\ websockets[w].state = "closed" \/ ~ websockets[w].alive
    /\ workers[w].started = workers[w].received
    /\ active_connections' = disconnect(active_connections, w, SessionOf(w))
    /\ security_events' = IF manager.class = Secure
                          THEN _log_security_event(security_events,
                                                   "connection_disconnected", Sender)
                          ELSE security_events
    /\ websockets' = [websockets EXCEPT ![w] = [@ EXCEPT !.state = "closed"]]
    /\ registry_op' = [op |-> "disconnect", websocket |-> w,
                       session_id |-> SessionOf(w), calls |-> <<>>,
                       raised |-> "none"]
    /\ workers' = [workers EXCEPT ![w] = [@ EXCEPT !.pc = "done"]]
    /\ UNCHANGED <<now, ticks, rate_limiter, result, shadow, shadow_result, admissions,
                   manager, masker, effects, outcome>>

Broadcasted(b, session_id) ==
    /\ active_connections' = b.ac
    /\ registry_op' = [op |-> "broadcast", websocket |-> "", session_id |-> session_id,
                       calls |-> b.calls, raised |-> b.raised]
    /\ UNCHANGED <<now, ticks, rate_limiter, result, shadow, shadow_result, admissions,
                   pipeVars, websockets, workers>>

\* a broadcast to a session, made while some connection's message is handled
Broadcast(session_id, content) ==
    /\ \E w \in Sockets : workers[w].pc = "handling"
    /\ \E b \in {IF manager.class = Secure
                 THEN broadcast_secure_message(active_connections, websockets,
                                               session_id, content)
                 ELSE broadcast_to_session(active_connections, websockets,
                                           session_id)} :
          Broadcasted(b, session_id)

\* the frames received so far on all connections
RECURSIVE SumReceived(_)
SumReceived(S) ==
    IF S = {} THEN 0
    ELSE LET w == CHOOSE x \in S : TRUE
         IN  workers[w].received + SumReceived(S \ {w})

Frames == SumReceived(Sockets)

InitConn == InitWith({2}, ConnManagers)

ConnNext ==
    \/ \E w \in Sockets, user_id \in {None, Sender}, accept_ok \in BOOLEAN :
          (manager.class = Secure => user_id = Sender) /\ Connect(w, user_id, accept_ok)
    \/ \E w \in Sockets : PeerLost(w)
    \/ \E w \in Sockets : Frames < MaxFrames /\ Arrive(w)
    \/ \E w \in Sockets : StartHandling(w)
    \/ \E w \in Sockets : FinishHandling(w)
    \/ \E w \in Sockets : Disconnect(w)
    \/ \E s \in Sessions, content \in BroadcastContents : Broadcast(s, content)

SpecConn == InitConn /\ [][ConnNext]_vars

\* ================================================================ claims

\* C1: the calls of another user never reduce the tokens a user's check
\* sees, nor turn one of its allowed checks into a denial, compared with
\* the same execution without the other user's calls.
IsolationTokens ==
    (result.op = "check_rate_limit" /\ result.user = Victim)
        => /\ result.tokens_remaining >= shadow_result.tokens_remaining
           /\ (shadow_result.allowed => result.allowed)

\* C2: the allow/deny outcome of each check of a user is the same with
\* and without the calls of the other users.
NonInterference ==
    (result.op = "check_rate_limit" /\ result.user = Victim)
        => result.allowed = shadow_result.allowed

\* C3: every existing bucket holds between 0 and limit + burst tokens.
BucketBounds ==
    \A u \in DOMAIN rate_limiter.buckets :
        \A e \in DOMAIN rate_limiter.buckets[u] :
            LET b == rate_limiter.buckets[u][e]
            IN  /\ 0 <= b.tokens
                /\ b.tokens <= (endpoint_limits(rate_limiter, e)
                                  + rate_limiter.burst_allowance) * TokenScale

\* a bucket filled to limit + burst by a refill, and an exhausted one
BucketBoundsWitness ==
    /\ result.op = "get_user_stats"
    /\ \E u \in DOMAIN rate_limiter.buckets :
          /\ \E e \in DOMAIN rate_limiter.buckets[u] :
                rate_limiter.buckets[u][e].tokens =
                    (endpoint_limits(rate_limiter, e)
                       + rate_limiter.burst_allowance) * TokenScale
          /\ \E e \in DOMAIN rate_limiter.buckets[u] :
                rate_limiter.buckets[u][e].tokens < TokenScale

\* The bucket a check operates on: the stored one, unless there is none or
\* the sweep this check runs removes it; then a new bucket of limit tokens.
Swept(L, u, e, t) ==
    /\ t - L.last_cleanup > cleanup_interval
    /\ t - L.buckets[u][e].last_refill > retention

HasBucket(L, u, e) == u \in DOMAIN L.buckets /\ e \in DOMAIN L.buckets[u]

CheckPost(u, e) ==
    LET L == rate_limiter
        limit == endpoint_limits(L, e)
        kept == HasBucket(L, u, e) /\ ~ Swept(L, u, e, now)
        tokens0 == IF kept THEN L.buckets[u][e].tokens ELSE limit * TokenScale
        elapsed == IF kept THEN now - L.buckets[u][e].last_refill ELSE 0
        refilled == Min((limit + L.burst_allowance) * TokenScale,
                        tokens0 + elapsed * limit)
        after == rate_limiter'.buckets[u][e].tokens
    IN  /\ result'.tokens_remaining = refilled
        /\ result'.allowed <=> refilled >= TokenScale
        /\ result'.allowed => after = refilled - TokenScale /\ result'.raised = "none"
        /\ ~ result'.allowed =>
              after = refilled /\ result'.raised = "RateLimitExceeded"

\* C4: a check refills the bucket by elapsed/60*limit capped at limit+burst,
\* allows exactly when the refilled count is at least one token, takes
\* exactly one token when it allows, and leaves the refilled count when it
\* denies.
CheckSemantics ==
    [][\A u \in Users, e \in Endpoints : CheckRateLimit(u, e) => CheckPost(u, e)]_vars

\* a denied check after a partial refill: the bucket keeps its refilled count
CheckSemanticsWitness ==
    /\ result.op = "check_rate_limit"
    /\ ~ result.allowed
    /\ result.tokens_remaining > 0
    /\ HasBucket(rate_limiter, result.user, result.endpoint)
    /\ rate_limiter.buckets[result.user][result.endpoint].tokens
          = result.tokens_remaining

VictimHistory ==
    IF Victim \in DOMAIN rate_limiter.request_history
    THEN rate_limiter.request_history[Victim] ELSE <<>>

\* C9: with limit 20 and burst 5, of the checks a fresh user makes before
\* any time elapses between 20 and 25 are allowed and none after the first
\* denial; an exhausted bucket left alone for 60 seconds admits the next check.
BurstThenRefill ==
    LET h == VictimHistory
        rapid == {i \in 1..Len(h) : h[i].timestamp = h[1].timestamp}
        admitted == {i \in rapid : h[i].allowed}
    IN  /\ Cardinality(admitted) <= 25
        /\ (\E i \in rapid : ~ h[i].allowed) => Cardinality(admitted) >= 20
        /\ \A i \in rapid, j \in rapid : (i < j /\ ~ h[i].allowed) => ~ h[j].allowed
        /\ \A u \in DOMAIN rate_limiter.buckets :
              \A e \in DOMAIN rate_limiter.buckets[u] :
                 LET b == rate_limiter.buckets[u][e]
                 IN  (b.tokens < TokenScale /\ now - b.last_refill >= 60)
                        => check_rate_limit(rate_limiter, u, e, now).allowed

\* 20 checks admitted at once, then a denial, then an admitted check at
\* least 60 seconds after a denial
BurstThenRefillWitness ==
    LET h == VictimHistory
    IN  /\ Cardinality({i \in 1..Len(h) :
                          h[i].timestamp = h[1].timestamp /\ h[i].allowed}) = 20
        /\ \E i \in 1..(Len(h) - 1) :
              /\ ~ h[i].allowed
              /\ h[i + 1].allowed
              /\ h[i + 1].timestamp - h[i].timestamp >= 60

IdleDurations == {0, 60, 301, 3600, 3601}

\* C10: for a given bucket, the tokens the next check sees do not decrease
\* with the time the bucket is left idle before that check.
RefillMonotonic ==
    \A u \in DOMAIN rate_limiter.buckets :
        \A e \in DOMAIN rate_limiter.buckets[u] :
            \A d1 \in IdleDurations, d2 \in IdleDurations :
                d1 <= d2 =>
                    check_rate_limit(rate_limiter, u, e, now + d1).tokens_remaining
                      <= check_rate_limit(rate_limiter, u, e, now + d2).tokens_remaining

\* ------------------------------------------------- the message pipeline
RejectionCodes == {"RATE_LIMIT_EXCEEDED", "VALIDATION_ERROR", "SECURITY_ERROR"}
StageOps == <<"check_rate_limit", "validate_message", "is_safe_for_llm",
              "mask_sensitive_data">>
StageNames == {"check_rate_limit", "validate_message", "is_safe_for_llm",
               "mask_sensitive_data", "validate_session_data"}

\* the positions, among the calls made for the last message, of the calls of op
Calls(op) == {i \in DOMAIN effects : effects[i].op = op}

\* C5: for every message an orchestrator has handled, the stages ran in the
\* order rate check, validate, safety check, mask, dispatch, each at most
\* once and only after every earlier stage completed without failure, and
\* the message ended in exactly one of Allowed (dispatched) or Rejected(code)
\* (not dispatched).
StageOrder ==
    outcome.handled =>
        /\ outcome.security \in {"Allowed", "Rejected"}
        /\ outcome.security = "Rejected" => outcome.error_code \in RejectionCodes
        /\ \A k \in 1..4 : Cardinality(Calls(StageOps[k])) <= 1
        /\ \A k \in 2..4 : \A i \in Calls(StageOps[k]) :
              \E j \in Calls(StageOps[k-1]) : j < i /\ effects[j].tag = "none"
        /\ Cardinality(Calls("dispatch")) <= 1
        /\ \A i \in Calls("dispatch") :
              /\ \E j \in Calls("mask_sensitive_data") : j < i
              /\ \A j \in 1..(i-1) :
                    effects[j].op \in StageNames => effects[j].tag = "none"
        /\ (outcome.security = "Allowed") <=> (Calls("dispatch") # {})

\* C6: when the pipeline rejected the last message, no save_message, no
\* generate_response and no broadcast was made for it, and exactly one
\* reply was sent: a security_error carrying the rejection code and a
\* non-empty message text.
RejectionShortCircuit ==
    outcome.security = "Rejected" =>
        /\ outcome.error_code \in RejectionCodes
        /\ \A i \in DOMAIN effects :
              effects[i].op \notin {"save_message", "generate_response", "broadcast"}
        /\ Cardinality(Calls("send_json")) = 1
        /\ \A i \in Calls("send_json") :
              /\ effects[i].tag = "security_error"
              /\ effects[i].code = outcome.error_code
              /\ effects[i].content.kind = "str"
              /\ PyLen(effects[i].content) > 0

\* a user_message on a connection of the secure manager was rejected by
\* the rate check and the rejection reply was sent
RejectionShortCircuitWitness ==
    /\ outcome.security = "Rejected"
    /\ outcome.type = "user_message"
    /\ outcome.error_code = "RATE_LIMIT_EXCEEDED"
    /\ manager.class = Secure
    /\ Calls("send_json") # {}

\* the calls that use the content of the inbound message
InboundUse(i) ==
    \/ effects[i].op \in {"generate_response", "broadcast"}
    \/ /\ effects[i].op = "save_message"
       /\ effects[i].tag = (IF outcome.type = "user_message" THEN "user"
                            ELSE "assistant")

\* the masker's output for the inbound content, as it is and as the
\* validation of outgoing messages rewrites it
GateOutput ==
    LET vm == validate_message(outcome.content, outcome.metadata)
        masked == mask_sensitive_data(DataMasker(TRUE), TRUE, vm.sanitized).masked
    IN  IF vm.raised # "none" THEN {}
        ELSE {masked, validate_message(masked, "empty").sanitized}

\* C7: whenever the content of a received user_message or assistant_message
\* was saved, broadcast or passed to the model, the rate check and the
\* validation had completed for that message before, and the content used
\* is the masker's output - whichever manager and entry path received it.
GateBeforeUse ==
    (outcome.handled /\ outcome.type \in {"user_message", "assistant_message"}) =>
        \A i \in DOMAIN effects : InboundUse(i) =>
            /\ \E j \in Calls("check_rate_limit") : j < i /\ effects[j].tag = "none"
            /\ \E j \in Calls("validate_message") : j < i /\ effects[j].tag = "none"
            /\ \E j \in Calls("mask_sensitive_data") : j < i
            /\ effects[i].content \in GateOutput

\* the rejection code fixed for an exception class
FixedCode(exc) ==
    IF exc = "RateLimitExceeded" THEN "RATE_LIMIT_EXCEEDED"
    ELSE IF exc = "ValidationError" THEN "VALIDATION_ERROR"
    ELSE "SECURITY_ERROR"

\* C8: a stage that raised ends the message as a rejection with the code
\* fixed for the exception (RateLimitExceeded, ValidationError, anything
\* else) and nothing is dispatched, saved, generated or broadcast; a
\* rejection comes from a failed stage only; a handler's failure is answered
\* by an error reply; and no exception leaves handle_secure_message or
\* handle_message.
FailureMapping ==
    outcome.handled =>
        /\ outcome.propagated = "none"
        /\ \A i \in DOMAIN effects :
              (effects[i].op \in StageNames /\ effects[i].tag # "none") =>
                  /\ outcome.security = "Rejected"
                  /\ outcome.error_code = FixedCode(effects[i].tag)
                  /\ \A j \in DOMAIN effects :
                        effects[j].op \notin {"dispatch", "save_message",
                                              "generate_response", "broadcast"}
        /\ outcome.security = "Rejected" =>
              \E i \in DOMAIN effects :
                  effects[i].op \in StageNames /\ effects[i].tag # "none"
        /\ \A i \in Calls("save_message") : effects[i].details # "none" =>
              \E j \in Calls("send_json") : j > i /\ effects[j].tag = "error"

\* a stage raised an exception that is neither RateLimitExceeded nor
\* ValidationError and the message was rejected with SECURITY_ERROR
FailureMappingWitness ==
    /\ outcome.handled
    /\ outcome.error_code = "SECURITY_ERROR"
    /\ \E i \in DOMAIN effects :
          effects[i].op = "validate_message" /\ effects[i].tag = "TypeError"

\* ------------------------------------------------------------ validation
\* the hard constraints on the content: not None, a string, at most
\* max_message_length characters
HardViolation(c) ==
    c.kind = "none" \/ c.kind # "str" \/ PyLen(c) > max_message_length

\* C11: whenever validate_message ran on the last message, a content that
\* is None, not a string or longer than the maximum made it raise
\* ValidationError and neither the masker nor save_message was called; a
\* string of at most the maximum length (with empty metadata) was accepted.
ValidationRaises ==
    \A i \in Calls("validate_message") :
        /\ HardViolation(outcome.content) =>
              /\ effects[i].tag = "ValidationError"
              /\ Calls("mask_sensitive_data") = {}
              /\ Calls("save_message") = {}
        /\ (~ HardViolation(outcome.content) /\ outcome.metadata = "empty") =>
              effects[i].tag = "none"

\* the spans of the content that match a malicious pattern
MaliciousSpans(c) == {i \in DOMAIN c.text : Malicious(c.text[i])}

ReportedUnsafe ==
    /\ Calls("is_safe_for_llm") # {}
    /\ ~ is_safe_for_llm(validate_message(outcome.content, outcome.metadata).sanitized)

\* C13: a user_message that the safety check reported not safe was not
\* passed to generate_response, whichever manager handled it (the check
\* itself returns a verdict and leaves the text as validated).
UnsafeNotForwarded ==
    (outcome.type = "user_message" /\ ReportedUnsafe) =>
        Calls("generate_response") = {}

\* ------------------------------------------------------------- dispatch
RecognizedTypes == {"session_start", "user_message", "assistant_message"}

\* C14: a message of an unrecognized type that the pipeline did not reject
\* was dispatched to _handle_unknown_message, an error reply was sent to
\* the sender, and no save_message and no generate_response call was made.
UnknownTypeReply ==
    (/\ outcome.handled
     /\ outcome.type \notin RecognizedTypes
     /\ outcome.security # "Rejected") =>
        /\ \E i \in Calls("dispatch") : effects[i].tag = "_handle_unknown_message"
        /\ \E i \in Calls("send_json") : effects[i].tag = "error"
        /\ Calls("save_message") = {}
        /\ Calls("generate_response") = {}

\* C15: every dispatch of the last message went to the unknown-type
\* handler exactly when its type is none of session_start, user_message,
\* assistant_message.
DispatchExhaustive ==
    \A i \in Calls("dispatch") :
        (effects[i].tag = "_handle_unknown_message")
            <=> (outcome.type \notin RecognizedTypes)

\* the texts str(e) of the exceptions the handlers catch
ExceptionTexts == {"RateLimitExceeded", "ValidationError", "TypeError",
                   "DatabaseError"}

\* what reaches a client: a frame sent or broadcast, or a close reason
ClientVisible == {"send_json", "broadcast", "close"}

\* C16: nothing sent to a client (a rejection reply, a generic error reply,
\* a close reason) carries the text of a caught exception, neither in its
\* content nor in an error_details field.
NoInternalDetail ==
    \A i \in DOMAIN effects :
        effects[i].op \in ClientVisible =>
            /\ effects[i].details \notin ExceptionTexts
            /\ \A k \in DOMAIN effects[i].content.text :
                  effects[i].content.text[k] \notin ExceptionTexts

\* the positions, among the calls of the last registry operation, of the calls of op
RegCalls(op) == {i \in DOMAIN registry_op.calls : registry_op.calls[i].op = op}

\* C17: connect registers a connection only after the rate limiter allowed
\* the attempt; a denial closes the socket with 4429, any other connect
\* failure with the different code 4500, and after either failure the
\* connection is not in the registry.
ConnectGate ==
    registry_op.op = "connect" =>
        /\ \A i \in RegCalls("register") :
              \E j \in RegCalls("check_rate_limit") :
                 j < i /\ registry_op.calls[j].details = "none"
        /\ rate_limited_close # error_close
        /\ registry_op.raised = "RateLimitExceeded" =>
              websockets[registry_op.websocket].code = rate_limited_close
        /\ registry_op.raised \notin {"none", "RateLimitExceeded"} =>
              websockets[registry_op.websocket].code = error_close
        /\ registry_op.raised # "none" =>
              /\ websockets[registry_op.websocket].state = "closed"
              /\ ~ Registered(active_connections, registry_op.websocket)

\* the sockets whose send_json raised in the last broadcast
FoundDead ==
    {registry_op.calls[i].websocket :
        i \in {j \in RegCalls("send_json") : registry_op.calls[j].details # "none"}}

\* C18: after any sequence of connect, disconnect and broadcast the registry
\* has no session entry with an empty list, no connection that has been
\* disconnected and no connection a broadcast has just found dead.
RegistryClean ==
    /\ \A s \in DOMAIN active_connections : active_connections[s] # <<>>
    /\ \A w \in Sockets :
          workers[w].pc = "done" => ~ Registered(active_connections, w)
    /\ registry_op.op = "broadcast" =>
          \A w \in FoundDead : ~ Registered(active_connections, w)

\* the sockets registered for a session
Conns(session_id) ==
    IF session_id \in DOMAIN active_connections
    THEN {active_connections[session_id][i] : i \in DOMAIN active_connections[session_id]}
    ELSE {}

\* the sockets the last broadcast attempted a send to
Attempted == {registry_op.calls[i].websocket : i \in RegCalls("send_json")}

\* C19: a broadcast attempts a send to every connection registered for the
\* session; the connections whose send failed are removed, the others are
\* all attempted in spite of the failure and stay registered.
BroadcastReachesAll ==
    registry_op.op = "broadcast" =>
        /\ Conns(registry_op.session_id) \subseteq Attempted
        /\ FoundDead \cap Conns(registry_op.session_id) = {}
        /\ Attempted \ FoundDead \subseteq Conns(registry_op.session_id)

\* two connections of one session receiving frames, their handlers
\* interleaved with connects, disconnects, lost peers and broadcasts
MaxOrderFrames == 3

OrderSockets == {"w1", "w2"}

OrderNext ==
    \/ \E w \in OrderSockets, user_id \in {None, Sender}, accept_ok \in BOOLEAN :
          (manager.class = Secure => user_id = Sender) /\ Connect(w, user_id, accept_ok)
    \/ \E w \in OrderSockets : PeerLost(w)
    \/ \E w \in OrderSockets : Frames < MaxOrderFrames /\ Arrive(w)
    \/ \E w \in OrderSockets : StartHandling(w)
    \/ \E w \in OrderSockets : FinishHandling(w)
    \/ \E w \in OrderSockets : Disconnect(w)
    \/ \E s \in Sessions, content \in BroadcastContents : Broadcast(s, content)

SpecOrder == InitConn /\ [][OrderNext]_vars

\* C20: on every connection the handling of the next frame starts only
\* after the handling of the previous one has finished, whatever the other
\* connections do in between: frames are started in receipt order and at
\* most one is being handled per connection.
InOrderHandling ==
    \A w \in Sockets :
        /\ workers[w].finished <= workers[w].started
        /\ workers[w].started <= workers[w].finished + 1
        /\ workers[w].started <= workers[w].received
        /\ (workers[w].pc = "handling") <=> (workers[w].started = workers[w].finished + 1)

\* a connection handles its second frame, its first one finished, while
\* another connection is in the middle of handling one of its own
InOrderHandlingWitness ==
    \E w, v \in Sockets :
        /\ w # v
        /\ workers[w].started = 2
        /\ workers[w].finished = 1
        /\ workers[v].pc = "handling"

\* ------------------------------------------------------------ the audit log
EventTypes == {"connection_established", "message_processed",
               "connection_disconnected"}

\* the event_type of the i-th event of an audit log filled by earlier traffic
EarlierType(i) ==
    IF i % 3 = 1 THEN "connection_established"
    ELSE IF i % 3 = 2 THEN "message_processed"
    ELSE "connection_disconnected"

\* an audit log that already holds n events
EarlierLog(n) == [i \in 1..n |-> [event_type |-> EarlierType(i), user_id |-> Sender]]

EarlierLengths == {0, max_security_events - 3, max_security_events - 2,
                   max_security_events - 1}

\* one call of _log_security_event
LogSecurityEvent(event_type, user_id) ==
    /\ security_events' = _log_security_event(security_events, event_type, user_id)
    /\ UNCHANGED <<now, ticks, rate_limiter, result, shadow, shadow_result, admissions,
                   manager, masker,
                   effects, outcome, connVars>>

InitLog == InitLogged({2}, {[class |-> Secure, db_awaitable |-> FALSE]},
                      {EarlierLog(n) : n \in EarlierLengths})

\* the log is within MaxLogged events of empty, of the cap, or of the length
\* it is cut back to
LogRoom ==
    \/ Len(security_events) < MaxLogged
    \/ Len(security_events) >= max_security_events - 3
    \/ /\ Len(security_events) >= kept_security_events
       /\ Len(security_events) < kept_security_events + MaxLogged

LogNext ==
    \E event_type \in EventTypes : LogRoom /\ LogSecurityEvent(event_type, Sender)

SpecLog == InitLog /\ [][LogNext]_vars

\* ================================================================ claims

Last(s) == s[Len(s)]

\* the log after the step is a suffix of the log before it with the newest
\* event appended: SubSeq(appended, k, Len(appended))
SuffixFrom(appended, k, log) == log = SubSeq(appended, k, Len(appended))

\* C21: the audit log never holds more than 1000 events; a logged event is
\* always retained as the last entry, nothing is dropped while the cap is
\* not exceeded, and what is dropped when it is exceeded are the oldest
\* entries only, the others keeping their order.
AuditLogBounded ==
    [][ /\ Len(security_events') <= max_security_events
        /\ security_events' # <<>>
        /\ \E k \in 1..(Len(security_events) + 1) :
              SuffixFrom(Append(security_events, Last(security_events')), k,
                         security_events')
        /\ Len(security_events) < max_security_events =>
              Len(security_events') = Len(security_events) + 1
      ]_vars

\* the log has just been cut back to its most recent events
AuditLogBoundedWitness ==
    /\ Len(security_events) = kept_security_events
    /\ Last(security_events).event_type = "message_processed"

\* time passes whatever the callers do; no thread, task or timer of the
\* limiter calls _cleanup_old_entries, so nothing else is fair
ClockAdvances == \E d \in TickSteps : ticks < MaxTicks /\ Tick(d)

SpecSweep == Init /\ [][Next]_vars /\ WF_vars(ClockAdvances)

\* user u has a bucket idle for longer than the retention window
StaleBucket(u) ==
    /\ u \in DOMAIN rate_limiter.buckets
    /\ \E e \in DOMAIN rate_limiter.buckets[u] :
          now - rate_limiter.buckets[u][e].last_refill > retention

\* C22: a bucket idle for longer than the retention window is eventually
\* removed, even when no check_rate_limit call is made any more.
SweepOnItsOwn == \A u \in Users : StaleBucket(u) ~> ~ StaleBucket(u)

\* --------------------------------------------------- administrative reset
\* checks of one user on both endpoints and of another on one, resets of
\* either user
AdminUsers == {"alice", "bob"}
AdminTickSteps == {3601}

InitAdmin == InitWith({2}, {NoManager})

AdminNext ==
    \/ \E d \in AdminTickSteps : ticks < MaxAdminTicks /\ Tick(d)
    \/ \E e \in Endpoints :
          HistLen(rate_limiter, Victim) < MaxAdminHist /\ CheckRateLimit(Victim, e)
    \/ HistLen(rate_limiter, Other) < MaxAdminHist
          /\ CheckRateLimit(Other, "websocket_message")
    \/ \E u \in AdminUsers, e \in Endpoints \cup {None} : ResetUserLimits(u, e)

SpecAdmin == InitAdmin /\ [][AdminNext]_vars

\* the buckets of user u, none if the user has no entry
BucketsOf(L, u) == IF u \in DOMAIN L.buckets THEN L.buckets[u] ELSE <<>>

\* the step is a call of reset_user_limits
ResetStep == result'.op = "reset_user_limits" /\ UNCHANGED <<now, ticks>>

\* C23 (frame): reset_user_limits(user) removes the user's buckets and
\* history, reset_user_limits(user, endpoint) sets an existing bucket of that
\* endpoint to exactly limit tokens; neither form changes a bucket of another
\* user, and the endpoint form leaves the user's other endpoints alone.
ResetFrame ==
    [][ ResetStep =>
          /\ \A u \in AdminUsers \ {result'.user} :
                BucketsOf(rate_limiter', u) = BucketsOf(rate_limiter, u)
          /\ result'.endpoint = None =>
                /\ result'.user \notin DOMAIN rate_limiter'.buckets
                /\ result'.user \notin DOMAIN rate_limiter'.request_history
          /\ result'.endpoint # None =>
                /\ DOMAIN BucketsOf(rate_limiter', result'.user)
                      = DOMAIN BucketsOf(rate_limiter, result'.user)
                /\ \A e \in DOMAIN BucketsOf(rate_limiter, result'.user) :
                      IF e = result'.endpoint
                      THEN BucketsOf(rate_limiter', result'.user)[e] =
                              [tokens |-> endpoint_limits(rate_limiter, e) * TokenScale,
                               last_refill |-> now]
                      ELSE BucketsOf(rate_limiter', result'.user)[e] =
                              BucketsOf(rate_limiter, result'.user)[e]
      ]_vars

AllEndpoints == {"websocket_message", "api_request", "login", "feedback", "other"}

\* the last call was a reset and nothing has been checked since: the user's
\* next check on a reset endpoint is allowed
ResetAllows ==
    result.op = "reset_user_limits" =>
        \A e \in (IF result.endpoint = None THEN AllEndpoints ELSE {result.endpoint}) :
            check_rate_limit(rate_limiter, result.user, e, now).allowed

\* C23: after reset_user_limits the user's next check on a reset endpoint is
\* allowed, and the reset changes nothing but what it is asked to reset
\* (ResetFrame).
ResetUserLimitsCorrect == []ResetAllows /\ ResetFrame

\* a user denied on an endpoint has had that endpoint reset to its limit
\* while the other endpoint and another user hold buckets of their own
ResetUserLimitsWitness ==
    \E u \in AdminUsers, v \in AdminUsers, e \in Endpoints :
        /\ u # v
        /\ result.op = "reset_user_limits" /\ result.user = u /\ result.endpoint = e
        /\ u \in DOMAIN rate_limiter.request_history
        /\ \E i \in DOMAIN rate_limiter.request_history[u] :
              /\ rate_limiter.request_history[u][i].endpoint = e
              /\ ~ rate_limiter.request_history[u][i].allowed
        /\ e \in DOMAIN BucketsOf(rate_limiter, u)
        /\ BucketsOf(rate_limiter, u)[e].tokens = endpoint_limits(rate_limiter, e) * TokenScale
        /\ BucketsOf(rate_limiter, v) # <<>>

\* C24: a statistics call changes no bucket (token count, last-refill time)
\* and no request-history entry.
StatsReadOnly ==
    [][ result'.op = "get_user_stats" => rate_limiter' = rate_limiter ]_vars

NotApplicable == -1

\* "Not applicable" while a token is left, else the time at which one token
\* is estimated to be available: current_time + 60.0 / requests_per_minute
_get_reset_time(L, bucket, current_time) ==
    IF bucket.tokens >= TokenScale THEN NotApplicable
    ELSE current_time + 60 \div L.requests_per_minute

\* the last call was a denied check and the bucket has not been touched since
DeniedLast ==
    /\ result.op = "check_rate_limit"
    /\ ~ result.allowed
    /\ result.user \in DOMAIN rate_limiter.buckets
    /\ result.endpoint \in DOMAIN rate_limiter.buckets[result.user]

\* C25: after a denial, a retry by the same user on the same endpoint at or
\* after the reset estimate reported in the denial is allowed.
RetryAtResetTime ==
    (DeniedLast /\ now >= _get_reset_time(rate_limiter,
                              rate_limiter.buckets[result.user][result.endpoint],
                              result.time))
        => check_rate_limit(rate_limiter, result.user, result.endpoint, now).allowed

\* how many consecutive checks at time t a user is admitted before the first
\* denial, n having been admitted already
RECURSIVE AdmittedFrom(_, _, _, _, _)
AdmittedNext(r, u, e, t, n) ==
    IF r.allowed THEN AdmittedFrom(r.rl, u, e, t, n + 1) ELSE n

AdmittedFrom(L, u, e, t, n) == AdmittedNext(check_rate_limit(L, u, e, t), u, e, t, n)

\* the consecutive checks on endpoint e a fresh user of a limiter configured
\* like L is admitted
Admitted(L, e) ==
    AdmittedFrom(RateLimiterInit(L.requests_per_minute, L.burst_allowance, 0),
                 "fresh", e, 0, 0)

EndpointClasses == {"websocket_message", "api_request", "login", "feedback"}

\* C26: whatever requests-per-minute value is configured, login has the
\* lowest limit of all endpoint classes and websocket_message a strictly
\* lower limit than api_request; a fresh user is admitted strictly more
\* api_request than websocket_message checks and strictly more
\* websocket_message than login checks; an unlisted endpoint gets the
\* default limit.
EndpointLimitsOrdered ==
    /\ \A e \in EndpointClasses :
          endpoint_limits(rate_limiter, "login") <= endpoint_limits(rate_limiter, e)
    /\ endpoint_limits(rate_limiter, "websocket_message")
          < endpoint_limits(rate_limiter, "api_request")
    /\ Admitted(rate_limiter, "api_request") > Admitted(rate_limiter, "websocket_message")
    /\ Admitted(rate_limiter, "websocket_message") > Admitted(rate_limiter, "login")
    /\ endpoint_limits(rate_limiter, "other") = rate_limiter.requests_per_minute

\* C27: a user with no prior requests is admitted at least limit +
\* burst_allowance rapid consecutive checks before the first one is denied.
BurstForNewUser ==
    LET h == VictimHistory
        rapid == {i \in 1..Len(h) : h[i].timestamp = h[1].timestamp}
    IN  \A i \in rapid :
            ~ h[i].allowed =>
                Cardinality({j \in rapid : j < i /\ h[j].allowed})
                    >= endpoint_limits(rate_limiter, h[i].endpoint)
                          + rate_limiter.burst_allowance

\* C28: a check on one endpoint, allowed or denied, leaves the same user's
\* bucket on every other endpoint as it was: still there, with the same
\* token count.
EndpointsIndependent ==
    [][ (result'.op = "check_rate_limit" /\ UNCHANGED <<now, ticks>>) =>
          \A e \in DOMAIN BucketsOf(rate_limiter, result'.user) \ {result'.endpoint} :
              /\ e \in DOMAIN BucketsOf(rate_limiter', result'.user)
              /\ BucketsOf(rate_limiter', result'.user)[e].tokens
                    = BucketsOf(rate_limiter, result'.user)[e].tokens
      ]_vars

\* --------------------------------------------- the masker called directly
\* DataMasker.mask_sensitive_data(text, preserve_context) on texts of up to
\* MaxMaskWords words, by a masker configured with or without masking, and
\* then once more on the text it returned (tests/security/test_masking.py)
MaskWords == {"hello", "AC-123456", "Account", "123456", "1234567890123456",
              "555-123-4567", "a@b.com", "123-45-6789", "SSN", "P-789456",
              "Policy", "AB-1234567", "test", "test account"}
MaskTexts == {Str(text, 0) :
                text \in UNION {[1..n -> MaskWords] : n \in 0..MaxMaskWords}}

MaskCall(masking_enabled, preserve_context, content, first, again, returned) ==
    [op |-> "mask_sensitive_data", masking_enabled |-> masking_enabled,
     preserve_context |-> preserve_context, text |-> content,
     masked |-> returned.masked, masking_log |-> returned.masking_log,
     raised |-> returned.raised, first |-> first, again |-> again]

MaskSensitiveData(preserve_context, content) ==
    /\ outcome' = MaskCall(masker.masking_enabled, preserve_context, content,
                           content, FALSE,
                           mask_sensitive_data(masker, preserve_context, content))
    /\ UNCHANGED <<now, ticks, rate_limiter, result, shadow, shadow_result, admissions,
                   manager, masker, security_events, effects, connVars>>

MaskAgain ==
    /\ outcome # NoOutcome
    /\ ~ outcome.again
    /\ outcome' = MaskCall(outcome.masking_enabled, outcome.preserve_context,
                           outcome.masked, outcome.first, TRUE,
                           mask_sensitive_data(masker, outcome.preserve_context,
                                               outcome.masked))
    /\ UNCHANGED <<now, ticks, rate_limiter, result, shadow, shadow_result, admissions,
                   manager, masker, security_events, effects, connVars>>

InitMask ==
    InitMasked({2}, {NoManager}, {<<>>}, {DataMasker(TRUE), DataMasker(FALSE)})

MaskNext ==
    \/ /\ outcome = NoOutcome
       /\ \E preserve_context \in BOOLEAN, content \in MaskTexts :
               MaskSensitiveData(preserve_context, content)
    \/ MaskAgain

SpecMask == InitMask /\ [][MaskNext]_vars

\* the text holds one of the exclusion phrases
ExclusionPhraseIn(text) ==
    \E i \in DOMAIN text :
        \/ text[i] = "test account"
        \/ text[i] = "test" /\ i < Len(text) /\ text[i + 1] = "Account"

SkipCase(call) ==
    \/ ~ call.masking_enabled
    \/ PyLen(call.text) = 0
    \/ call.preserve_context /\ ExclusionPhraseIn(call.text.text)

\* C29: mask_sensitive_data raises nothing on any text, and when masking is
\* disabled, the text is empty, or preserve_context is set and the text holds
\* an exclusion phrase, it returns the text it was given and an empty log,
\* whatever sensitive spans the text holds.
MaskSkipsAreIdentity ==
    outcome # NoOutcome =>
        /\ outcome.raised = "none"
        /\ SkipCase(outcome) =>
              outcome.masked = outcome.text /\ outcome.masking_log = <<>>

\* a call on the enabled masker that met an exclusion phrase after an account
\* number and returned both untouched
MaskSkipsAreIdentityWitness ==
    /\ outcome # NoOutcome
    /\ ~ outcome.again
    /\ outcome.masking_enabled
    /\ outcome.preserve_context
    /\ outcome.text.text = <<"AC-123456", "test account">>
    /\ outcome.masked = outcome.text
    /\ outcome.masking_log = <<>>

\* C30: masking the text that mask_sensitive_data returned returns that text
\* unchanged and an empty log: no pattern matches a placeholder or a text
\* that placeholders have been written into.
MaskingIdempotent ==
    (outcome # NoOutcome /\ outcome.again) =>
        /\ outcome.raised = "none"
        /\ outcome.masked = outcome.text
        /\ outcome.masking_log = <<>>

\* the second call on a text whose first account number the first call has
\* replaced, with six digits still standing after the placeholder
MaskingIdempotentWitness ==
    /\ outcome # NoOutcome
    /\ outcome.again
    /\ outcome.masking_enabled
    /\ outcome.first.text = <<"Account", "123456", "123456">>
    /\ outcome.text.text = <<"{{ACCOUNT}}", "123456">>
    /\ outcome.masked = outcome.text

\* ------------------------------------------- custom patterns at runtime
\* add_custom_pattern(category, pattern) for a new and an existing category,
\* and mask_sensitive_data on texts of up to MaxCustomWords words
CustomCategories == {"EMPLOYEE_ID", "ACCOUNT"}
CustomWords == {"hello", "EMP-1234", "a@b.com", "test account"}
CustomTexts == {Str(text, 0) :
                  text \in UNION {[1..n -> CustomWords] : n \in 0..MaxCustomWords}}

AddCustomPattern(category, pattern) ==
    /\ Len(masker.patterns) < Len(patterns) + MaxCustomPatterns
    /\ \E added \in {add_custom_pattern(masker, category, pattern)} :
          /\ masker' = added.self
          /\ outcome' = [op |-> "add_custom_pattern", category |-> category,
                         pattern |-> pattern, returned |-> added.returned]
    /\ UNCHANGED <<now, ticks, rate_limiter, result, shadow, shadow_result, admissions,
                   manager, security_events, effects, connVars>>

CustomNext ==
    \/ \E category \in CustomCategories, pattern \in CustomPatterns :
          AddCustomPattern(category, pattern.source)
    \/ \E preserve_context \in BOOLEAN, content \in CustomTexts :
          MaskSensitiveData(preserve_context, content)

SpecCustom == InitMask /\ [][CustomNext]_vars

\* the patterns of one category, in the order of its list
RECURSIVE ListOf(_, _)
ListOf(table, category) ==
    IF table = <<>> THEN <<>>
    ELSE (IF Head(table).category = category THEN <<Head(table).source>> ELSE <<>>)
            \o ListOf(Tail(table), category)

CategoriesOf(table) == {table[k].category : k \in DOMAIN table}

\* a step of add_custom_pattern: a failure changes neither table; a success
\* puts the pattern at the end of the category's list and changes no other
\* category's list, in the pattern table and in the compiled table alike
CustomPatternStep ==
    [][ outcome'.op = "add_custom_pattern" =>
          IF ~ Compiles(outcome'.pattern)
          THEN ~ outcome'.returned /\ masker' = masker
          ELSE /\ outcome'.returned
               /\ masker'.masking_enabled = masker.masking_enabled
               /\ \A table \in {"patterns", "compiled_patterns"} :
                    /\ ListOf(masker'[table], outcome'.category)
                         = Append(ListOf(masker[table], outcome'.category),
                                  outcome'.pattern)
                    /\ \A c \in CategoriesOf(masker[table]) \ {outcome'.category} :
                          ListOf(masker'[table], c) = ListOf(masker[table], c) ]_vars

\* the first pattern of the compiled table that matches the word
FirstMatch(table, word) ==
    LET hits == {k \in DOMAIN table : Shape(word) \in table[k].body}
    IN  IF hits = {} THEN 0 ELSE CHOOSE k \in hits : \A j \in hits : k <= j

\* after a masking call that was not skipped, every word a registered custom
\* pattern matches before any other pattern does stands replaced by the
\* placeholder of the category the pattern was registered under
CustomPatternMasks ==
    (/\ outcome # NoOutcome
     /\ outcome.op = "mask_sensitive_data"
     /\ outcome.masking_enabled
     /\ ~ (outcome.preserve_context /\ ExclusionPhraseIn(outcome.text.text)))
    => \A i \in DOMAIN outcome.text.text :
          LET k == FirstMatch(masker.compiled_patterns, outcome.text.text[i])
          IN  (k > Len(patterns) \/ (k > 0 /\ masker.compiled_patterns[k].source
                                          \in {p.source : p \in CustomPatterns}))
              => /\ Len(outcome.masked.text) = Len(outcome.text.text)
                 /\ outcome.masked.text[i]
                      = Placeholder(masker.compiled_patterns[k].category)

EndToEndMessage == Str(<<"AC-123456", "a@b.com", "<script>alert(1)</script>">>, 0)
RawSensitive == {"AC-123456", "a@b.com", "<script>alert(1)</script>"}

EndToEndMessages ==
    [type : {"user_message", "assistant_message"},
     content : {Text("hello"), EndToEndMessage}, metadata : {"empty"}]

EndToEndNext ==
    \/ \E d \in PipeTickSteps : ticks < MaxPipeTicks /\ Tick(d)
    \/ \E data \in EndToEndMessages, env \in Envs :
          HistLen(rate_limiter, Sender) < MaxPipeHist /\ HandleSecureMessage(data, env)
    \/ \E data \in EndToEndMessages, env \in Envs, user_id \in {None, Sender} :
          HistLen(rate_limiter, Sender) < MaxPipeHist
             /\ HandleMessage(data, env, user_id)

SpecEndToEnd == InitPipe /\ [][EndToEndNext]_vars

EndToEnd ==
    /\ outcome.handled
    /\ manager.class = Secure
    /\ outcome.type = "user_message"
    /\ outcome.content = EndToEndMessage
    /\ \E i \in DOMAIN effects :
          effects[i].op = "check_rate_limit" /\ effects[i].tag = "none"

\* the categories of the masking log carried by the audit event
LoggedCategories(i) ==
    {effects[i].details.masking_log[k].category :
        k \in DOMAIN effects[i].details.masking_log}

\* what is true of the end-to-end message whatever the number of categories:
\* one Allowed outcome, one audit event with one blocked pattern, and no raw
\* sensitive value in anything handed to the handler
EndToEndOutcome(categories) ==
    /\ outcome.security = "Allowed"
    /\ Cardinality({i \in DOMAIN effects : effects[i].op = "_log_security_event"}) = 1
    /\ \A i \in DOMAIN effects :
          effects[i].op = "_log_security_event" =>
              /\ Cardinality(LoggedCategories(i)) = categories
              /\ effects[i].details.validation_report.blocked_patterns = 1
    /\ \E i \in DOMAIN effects : effects[i].op = "dispatch"
    /\ \A i, j \in DOMAIN effects :
          (effects[i].op = "dispatch" /\ j > i) =>
              \A k \in DOMAIN effects[j].content.text :
                  effects[j].content.text[k] \notin RawSensitive

\* C32 (as stated): the audit event of the end-to-end message shows three
\* masking categories matched.
EndToEndThreeCategories == EndToEnd => EndToEndOutcome(3)

\* C32 (amended): the end-to-end message produces one Allowed outcome whose
\* audit event shows two masking categories matched (ACCOUNT and EMAIL) and
\* one blocked validation pattern, and the content dispatched to the handler
\* holds none of the raw sensitive values.
EndToEndTwoCategories ==
    EndToEnd =>
        /\ EndToEndOutcome(2)
        /\ \A i \in DOMAIN effects :
              effects[i].op = "_log_security_event" =>
                  LoggedCategories(i) = {"ACCOUNT", "EMAIL"}

\* the end-to-end message handled and saved with its placeholders
EndToEndWitness ==
    /\ EndToEnd
    /\ \E i \in DOMAIN effects :
          /\ effects[i].op = "save_message"
          /\ effects[i].content.text = <<"{{ACCOUNT}}", "{{EMAIL}}", "[BLOCKED]">>

\* ------------------------------------------------ unusual user ids
\* check_rate_limit called with the empty user id next to an ordinary one
MaxEdgeTicks == 2
MaxEdgeHist == 2
EdgeUsers == {"", "alice"}
EdgeTickSteps == {20, 60}

InitEdge == InitWith({2}, {NoManager})

EdgeNext ==
    \/ \E d \in EdgeTickSteps : ticks < MaxEdgeTicks /\ Tick(d)
    \/ \E u \in EdgeUsers, e \in Endpoints :
          HistLen(rate_limiter, u) < MaxEdgeHist /\ CheckRateLimit(u, e)

SpecEdge == InitEdge /\ [][EdgeNext]_vars

\* C33: a call of check_rate_limit with the empty user id raises an error:
\* it creates no bucket for the empty id and admits nothing.
EmptyUserRejected ==
    (result.op = "check_rate_limit" /\ result.user = "") =>
        /\ result.raised # "none"
        /\ ~ result.allowed
        /\ "" \notin DOMAIN rate_limiter.buckets

\* ------------------------------------------ handlers that interleave
\* Each connection's websocket_endpoint is a coroutine of one event loop: it
\* runs from one await to the next without interruption, and the loop then
\* resumes any coroutine that is ready.
MaxTaskTicks == 1
MaxTaskFrames == 2
TaskTickSteps == {30}
UserOf(w) == IF w = "w3" THEN "bob" ELSE "alice"
TaskMessages == [type : {"assistant_message"},
                 content : {Text("hello")}, metadata : {"empty"}]
TaskEnv == [db_fail_at |-> 0, session_exists |-> TRUE]

\* the calls of a handler at which its coroutine is suspended: the sends,
\* the model call and a save_message that returns an awaitable
Awaited(mgr, call) ==
    \/ call.op \in {"send_json", "generate_response", "broadcast"}
    \/ call.op = "save_message" /\ mgr.class = Secure /\ mgr.db_awaitable

\* the awaits ahead of a handler that is to make calls
Awaits(mgr, calls) == SelectSeq(calls, LAMBDA call : Awaited(mgr, call))

\* the coroutine with an await inside the rate check: the request is logged
\* at once, the bucket is written when the handler is resumed
Advance_late(mgr, L, events, worker, h) ==
    IF worker.pc = "receive"
    THEN [rl |-> [L EXCEPT !.request_history = h.rl.request_history],
          events |-> h.events,
          worker |-> [worker EXCEPT
                        !.pc = IF Awaits(mgr, h.calls) = <<>> THEN "receive"
                               ELSE "handling",
                        !.started = @ + 1,
                        !.finished = IF Awaits(mgr, h.calls) = <<>> THEN @ + 1 ELSE @,
                        !.pending = Awaits(mgr, h.calls),
                        !.check = h.check]]
    ELSE [rl |-> IF "rl" \in DOMAIN worker.check
                 THEN [L EXCEPT !.buckets = worker.check.rl.buckets]
                 ELSE L,
          events |-> events,
          worker |-> [worker EXCEPT
                        !.pc = IF Tail(worker.pending) = <<>> THEN "receive"
                               ELSE "handling",
                        !.finished = IF Tail(worker.pending) = <<>> THEN @ + 1 ELSE @,
                        !.pending = Tail(@)]]

\* the coroutine of worker runs to its next await.  At receive_json the
\* frame is handled as far as the first await (h: what handle_message or
\* handle_secure_message does with it; the pipeline and its rate check have
\* no await); a suspended handler is resumed past one await.
Advance(mgr, L, events, worker, h) ==
    IF worker.pc = "receive"
    THEN [rl |-> h.rl, events |-> h.events,
          worker |-> [worker EXCEPT
                        !.pc = IF Awaits(mgr, h.calls) = <<>> THEN "receive"
                               ELSE "handling",
                        !.started = @ + 1,
                        !.finished = IF Awaits(mgr, h.calls) = <<>> THEN @ + 1 ELSE @,
                        !.pending = Awaits(mgr, h.calls),
                        !.check = h.check]]
    ELSE [rl |-> L, events |-> events,
          worker |-> [worker EXCEPT
                        !.pc = IF Tail(worker.pending) = <<>> THEN "receive"
                               ELSE "handling",
                        !.finished = IF Tail(worker.pending) = <<>> THEN @ + 1 ELSE @,
                        !.pending = Tail(@)]]

Advanced(w, a) ==
    /\ rate_limiter' = a.rl
    /\ security_events' = a.events
    /\ workers' = [workers EXCEPT ![w] = a.worker]
    /\ result' = IF workers[w].pc = "receive"
                 THEN [op |-> "check_rate_limit", user |-> UserOf(w),
                       endpoint |-> "websocket_message",
                       allowed |-> a.worker.check.allowed,
                       raised |-> a.worker.check.raised,
                       limit |-> a.worker.check.limit,
                       tokens_remaining |-> a.worker.check.tokens_remaining,
                       time |-> now]
                 ELSE result
    /\ UNCHANGED <<now, ticks, shadow, shadow_result, admissions, manager, masker, effects,
                   outcome, active_connections, websockets, registry_op>>

\* receive_json returns a frame on w and its handling starts
TaskReceive(w, data) ==
    /\ workers[w].pc = "receive"
    /\ websockets[w].state = "accepted"
    /\ \E h \in {IF manager.class = Secure
                 THEN handle_secure_message(manager, rate_limiter, security_events,
                                            UserOf(w), data, TaskEnv, now)
                 ELSE handle_message(manager, rate_limiter, security_events,
                                     UserOf(w), data, TaskEnv, now)} :
          Advanced(w, Advance(manager, rate_limiter, security_events, workers[w], h))

\* the await at which the handler of w is suspended returns
TaskResume(w) ==
    /\ workers[w].pc = "handling"
    /\ Advanced(w, Advance(manager, rate_limiter, security_events, workers[w],
                           NoResult))

TaskStarted == workers["w1"].started + workers["w2"].started + workers["w3"].started

\* the secure manager with a database whose save_message can be awaited, and
\* the plain manager
TaskManagers == {[class |-> Secure, db_awaitable |-> TRUE],
                 [class |-> Plain, db_awaitable |-> FALSE]}

InitTasks == InitWith({2}, TaskManagers)

TaskNext ==
    \/ \E d \in TaskTickSteps : ticks < MaxTaskTicks /\ Tick(d)
    \/ \E w \in Sockets : Connect(w, UserOf(w), TRUE)
    \/ \E w \in Sockets, data \in TaskMessages :
          TaskStarted < MaxTaskFrames /\ TaskReceive(w, data)
    \/ \E w \in Sockets : TaskResume(w)

SpecTasks == InitTasks /\ [][TaskNext]_vars

\* the limiter after the checks logged in history have run one after the
\* other, in the order logged, on the limiter L
RECURSIVE Replayed(_, _, _)
Replayed(L, u, history) ==
    IF history = <<>> THEN L
    ELSE Replayed(check_rate_limit(L, u, Head(history).endpoint,
                                   Head(history).timestamp).rl,
                  u, Tail(history))

\* what the limiter holds for every user is what a sequential run of the
\* user's logged checks on a new limiter leaves: the same buckets and the
\* same admissions
SequentialOutcome ==
    \A u \in DOMAIN rate_limiter.request_history :
        \E r \in {Replayed(RateLimiterInit(rate_limiter.requests_per_minute,
                                           rate_limiter.burst_allowance, 0),
                           u, rate_limiter.request_history[u])} :
            /\ r.request_history[u] = rate_limiter.request_history[u]
            /\ r.buckets[u] = rate_limiter.buckets[u]

\* every step that changes the limiter is one whole check made on the
\* limiter as it stands, and resuming a suspended handler changes nothing
WholeChecks ==
    [][ /\ rate_limiter' # rate_limiter =>
              \E w \in Sockets :
                  /\ workers[w].pc \in {"connect", "receive"}
                  /\ rate_limiter' = check_rate_limit(rate_limiter, UserOf(w),
                                                      "websocket_message", now).rl
        /\ (\E w \in Sockets : workers[w].pc = "handling"
                                  /\ workers'[w].pending # workers[w].pending)
              => rate_limiter' = rate_limiter
      ]_vars

\* C34: with the handlers of several connections interleaved at their
\* awaits, every check_rate_limit runs whole on the current limiter, and the
\* admissions of each user are those of the logged checks run one after the
\* other.
RateChecksAtomic == []SequentialOutcome /\ WholeChecks

\* a check of alice admitted on one connection while the handler of her
\* other connection is suspended, and a later one denied
RateChecksAtomicWitness ==
    /\ workers["w1"].pc = "handling"
    /\ workers["w2"].pc = "handling"
    /\ workers["w1"].check.allowed
    /\ workers["w2"].check.raised = "RateLimitExceeded"

\* --------------------------------------- a broadcast suspended in a send
\* The loop of broadcast_to_session and of broadcast_secure_message iterates
\* over the registry's own list and awaits every send_json: while the
\* broadcast is suspended the event loop runs the other connections'
\* coroutines, which connect and disconnect.
MaxCastFrames == 1

\* the list the iterator walks: self.active_connections[session_id] as it is
\* now.  A socket registers once, so a list deleted by disconnect is never
\* replaced by a new one while the loop runs; the deleted list is empty.
Iterated(ac, session_id) == IF session_id \in DOMAIN ac THEN ac[session_id] ELSE <<>>

\* the loop "for ws in disconnected" after the sends
CastCleanup(class, ac, cast) ==
    IF class = Plain
    THEN [ac |-> DisconnectAll(ac, cast.disconnected, cast.session_id),
          cast |-> [cast EXCEPT !.pc = "done", !.target = ""]]
    ELSE IF cast.disconnected # <<>> /\ cast.session_id \notin DOMAIN ac
    THEN [ac |-> ac, cast |-> [cast EXCEPT !.pc = "done", !.target = "",
                                           !.raised = "KeyError"]]
    ELSE IF cast.disconnected = <<>>
    THEN [ac |-> ac, cast |-> [cast EXCEPT !.pc = "done", !.target = ""]]
    ELSE [ac |-> [ac EXCEPT ![cast.session_id] = RemoveAll(@, cast.disconnected)],
          cast |-> [cast EXCEPT !.pc = "done", !.target = ""]]

\* the for statement asks the list iterator for its next item: the item at
\* the iterator's index in the list as it is now, or the end of the loop
CastIterate(class, ac, cast) ==
    IF cast.index < Len(Iterated(ac, cast.session_id))
    THEN [ac |-> ac,
          cast |-> [cast EXCEPT !.pc = "sending",
                                !.target = Iterated(ac, cast.session_id)[cast.index + 1],
                                !.index = @ + 1]]
    ELSE CastCleanup(class, ac, cast)

\* the broadcast is called: up to its first await
CastCalled(class, ac, session_id, vm) ==
    IF session_id \notin DOMAIN ac
    THEN [ac |-> ac, cast |-> [NoCast EXCEPT !.pc = "done", !.session_id = session_id]]
    ELSE IF class = Secure /\ vm.raised # "none"
    THEN [ac |-> ac, cast |-> [NoCast EXCEPT !.pc = "done", !.session_id = session_id,
                                             !.members = ac[session_id],
                                             !.raised = vm.raised]]
    ELSE CastIterate(class, ac, [NoCast EXCEPT !.session_id = session_id,
                                               !.members = ac[session_id]])

\* the awaited send_json returns or raises, and the loop goes on
CastSent(class, ac, sock, cast) ==
    CastIterate(class, ac,
        IF sock[cast.target].alive
        THEN [cast EXCEPT !.sent = Append(@, cast.target)]
        ELSE [cast EXCEPT !.disconnected = Append(@, cast.target)])

CastMoved(w, c) ==
    /\ active_connections' = c.ac
    /\ workers' = [workers EXCEPT ![w] =
                      [@ EXCEPT !.pc = IF c.cast.pc = "done" THEN "handling"
                                       ELSE "broadcasting",
                                !.cast = c.cast]]
    /\ registry_op' = IF c.cast.pc = "done"
                      THEN [op |-> "broadcast", websocket |-> w,
                            session_id |-> c.cast.session_id,
                            calls |-> [i \in DOMAIN c.cast.sent |->
                                          RegCall("send_json", c.cast.sent[i], 0, "none")],
                            raised |-> c.cast.raised]
                      ELSE registry_op
    /\ UNCHANGED <<now, ticks, rate_limiter, result, shadow, shadow_result, admissions,
                   pipeVars, websockets>>

\* the handler of a message received on w calls the broadcast for its session
CastStart(w, content) ==
    /\ workers[w].pc = "handling"
    /\ workers[w].cast.pc = "idle"
    /\ CastMoved(w, CastCalled(manager.class, active_connections, SessionOf(w),
                               validate_message(content, "empty")))

\* the event loop resumes the broadcast of w's handler
CastResume(w) ==
    /\ workers[w].pc = "broadcasting"
    /\ CastMoved(w, CastSent(manager.class, active_connections, websockets,
                             workers[w].cast))

CastNext ==
    \/ \E w \in Sockets : Connect(w, Sender, TRUE)
    \/ \E w \in Sockets : PeerLost(w)
    \/ \E w \in Sockets : Frames < MaxCastFrames /\ Arrive(w)
    \/ \E w \in Sockets : StartHandling(w)
    \/ \E w \in Sockets : FinishHandling(w)
    \/ \E w \in Sockets : Disconnect(w)
    \/ \E w \in Sockets, content \in BroadcastContents : CastStart(w, content)
    \/ \E w \in Sockets : CastResume(w)

SpecCast == InitConn /\ [][CastNext]_vars

\* how many times w stands in the sockets sent to
Deliveries(sent, w) == Cardinality({i \in DOMAIN sent : sent[i] = w})

\* C35: a broadcast of a valid message interleaved with connects and
\* disconnects completes without raising, and every connection registered
\* from its call to its return, with a peer that still reads, has received
\* the message once.
BroadcastInterleaved ==
    [][ \A w \in Sockets :
          (/\ workers[w].cast.pc # "done"
           /\ workers'[w].cast.pc = "done"
           /\ workers'[w].cast.raised # "ValidationError") =>
              /\ workers'[w].cast.raised = "none"
              /\ \A x \in Sockets :
                    (/\ InList(workers'[w].cast.members, x)
                     /\ Registered(active_connections', x)
                     /\ websockets'[x].alive)
                       => Deliveries(workers'[w].cast.sent, x) = 1
      ]_vars

\* the _log_security_event calls among the calls made for the message
AuditCalls == {i \in DOMAIN effects : effects[i].op = "_log_security_event"}

\* C36: a message the pipeline allows appends exactly one message_processed
\* event, which bundles the rate decision, the validation report, the
\* safety check and the masking log, before the message is dispatched; a
\* rejected message appends none.
OneAuditEventPerAllowed ==
    outcome.handled =>
        /\ outcome.security = "Allowed" =>
              /\ Cardinality(AuditCalls) = 1
              /\ \A i \in AuditCalls :
                    /\ {"rate_limit_info", "validation_report", "llm_safety",
                        "masking_log"} \subseteq DOMAIN effects[i].details
                    /\ \A j \in DOMAIN effects : effects[j].op = "dispatch" => i < j
        /\ outcome.security = "Rejected" => AuditCalls = {}

\* the step is a call of _cleanup_old_entries at the time now
SweepStep == result'.op = "_cleanup_old_entries" /\ result'.time = now
                /\ UNCHANGED <<now, ticks>>

\* C37: right after _cleanup_old_entries has run at time t, no bucket last
\* refilled more than 3600 s before t and no history entry older than
\* 3600 s is left, no user is left with zero buckets or an empty history,
\* and every bucket refilled within the last 3600 s is there with the
\* tokens it had.
SweepPostcondition ==
    [][ SweepStep =>
          /\ \A u \in DOMAIN rate_limiter'.buckets :
                /\ DOMAIN rate_limiter'.buckets[u] # {}
                /\ \A e \in DOMAIN rate_limiter'.buckets[u] :
                      ~ (now - rate_limiter'.buckets[u][e].last_refill > retention)
          /\ \A u \in DOMAIN rate_limiter'.request_history :
                /\ rate_limiter'.request_history[u] # <<>>
                /\ \A i \in DOMAIN rate_limiter'.request_history[u] :
                      ~ (now - rate_limiter'.request_history[u][i].timestamp > retention)
          /\ \A u \in DOMAIN rate_limiter.buckets :
                \A e \in DOMAIN rate_limiter.buckets[u] :
                   now - rate_limiter.buckets[u][e].last_refill <= retention =>
                      /\ HasBucket(rate_limiter', u, e)
                      /\ rate_limiter'.buckets[u][e] = rate_limiter.buckets[u][e]
      ]_vars

\* a sweep run more than an hour after the limiter was made has left a
\* bucket that was used since, and nothing of the hour before
SweepPostconditionWitness ==
    /\ result.op = "_cleanup_old_entries"
    /\ result.time = now
    /\ now > retention
    /\ \E u \in DOMAIN rate_limiter.buckets :
          \E e \in DOMAIN rate_limiter.buckets[u] :
             /\ rate_limiter.buckets[u][e].last_refill > retention
             /\ rate_limiter.buckets[u][e].tokens
                   < endpoint_limits(rate_limiter, e) * TokenScale
             /\ Cardinality(DOMAIN rate_limiter.buckets[u]) = 1
             /\ Len(rate_limiter.request_history[u]) = 1

\* ------------------------------------- admissions counted over time
\* One user's checks with the clock, the sweep and get_user_stats in
\* between and no reset; admissions keeps the endpoint and time of every
\* check allowed, with no entry ever dropped.
MaxBoundTicks == 3
MaxBoundHist == 7
BoundTickSteps == {301, 3601}
\* the endpoint with the smallest limit: requests_per_minute // 2
BoundEndpoints == {"feedback"}

BoundCheck(u, e) ==
    LET r == check_rate_limit(rate_limiter, u, e, now)
    IN  /\ rate_limiter' = r.rl
        /\ result' = [op |-> "check_rate_limit", user |-> u, endpoint |-> e,
                      allowed |-> r.allowed, raised |-> r.raised,
                      limit |-> r.limit, tokens_remaining |-> r.tokens_remaining,
                      time |-> now]
        /\ admissions' = IF r.allowed
                       THEN Append(admissions, [endpoint |-> e, time |-> now])
                       ELSE admissions
        /\ UNCHANGED <<now, ticks, shadow, shadow_result, pipeVars, connVars>>

InitBound == InitWith({2}, {NoManager})

BoundNext ==
    \/ \E d \in BoundTickSteps : ticks < MaxBoundTicks /\ Tick(d)
    \/ \E e \in BoundEndpoints :
          HistLen(rate_limiter, Sender) < MaxBoundHist /\ BoundCheck(Sender, e)
    \/ GetUserStats(Sender)
    \/ CleanupOldEntries

SpecBound == InitBound /\ [][BoundNext]_vars

\* the checks of endpoint e allowed from the i-th to the j-th admission
AdmittedBetween(e, i, j) ==
    Cardinality({k \in i..j : admissions[k].endpoint = e})

\* C38: without resets, the checks allowed for one user and endpoint in any
\* interval of T seconds number at most limit + burst_allowance +
\* T * limit / 60, whatever the calls and the sweeps in between.
BoundedAdmission ==
    \A i, j \in DOMAIN admissions :
        (i <= j /\ admissions[i].endpoint = admissions[j].endpoint) =>
            AdmittedBetween(admissions[i].endpoint, i, j) * TokenScale
               <= (endpoint_limits(rate_limiter, admissions[i].endpoint)
                      + rate_limiter.burst_allowance) * TokenScale
                  + (admissions[j].time - admissions[i].time)
                       * endpoint_limits(rate_limiter, admissions[i].endpoint)

\* a bucket swept after an hour's idling, made anew, filled to the cap and
\* emptied at a single time: as many admissions as the bound allows
BoundedAdmissionWitness ==
    /\ Len(admissions) >= 3
    /\ \E i \in DOMAIN admissions :
          /\ i < Len(admissions)
          /\ admissions[i + 1].time - admissions[i].time > retention
          /\ admissions[i + 1].endpoint = admissions[i].endpoint
          /\ \E j \in DOMAIN admissions :
                /\ j > i + 1
                /\ admissions[j].endpoint = admissions[i].endpoint
                /\ admissions[j].time = admissions[Len(admissions)].time
                /\ AdmittedBetween(admissions[j].endpoint, j, Len(admissions))
                      = endpoint_limits(rate_limiter, admissions[j].endpoint)
                           + rate_limiter.burst_allowance

\* the calls with the given op and tag among those made for the message
Tagged(op, tag) == {i \in DOMAIN effects : effects[i].op = op /\ effects[i].tag = tag}

\* every call of A comes after a call of B that returned
After(A, B) ==
    \A i \in A : \E j \in B : j < i /\ effects[j].details = "none"

\* C39: for an allowed user_message the masked message is saved once, the
\* message_received confirmation follows the save, the model is called
\* only after the confirmation and only when the safety check reported
\* safe, its response is saved after the call, and the assistant_message
\* is sent only after that save has returned.
HandlerOrder ==
    (outcome.handled /\ outcome.type = "user_message"
        /\ outcome.security = "Allowed") =>
        /\ Cardinality(Tagged("save_message", "user")) = 1
        /\ \A i \in Tagged("save_message", "user") :
              /\ effects[i].content
                    = mask_sensitive_data(DataMasker(TRUE), TRUE,
                         validate_message(outcome.content, outcome.metadata).sanitized).masked
              /\ \A j \in Tagged("send_json", "message_received") : i < j
        /\ \A i \in Calls("generate_response") :
              /\ ~ ReportedUnsafe
              /\ \E j \in Tagged("send_json", "message_received") : j < i
        /\ \A i \in Tagged("save_message", "assistant") :
              \E j \in Calls("generate_response") : j < i
        /\ After(Tagged("send_json", "assistant_message"),
                 Tagged("save_message", "assistant"))

\* ------------------------------------------- the security summary of a user
MaxSummaryTicks == 1
MaxSummaryHist == 3

SummaryTickSteps == {30}

SummaryUsers == {"alice", "bob"}

\* get_user_security_summary: get_user_stats of the user, the count of the
\* user's events among the last 100 of the log, then is_user_blocked with
\* its default endpoint
get_user_security_summary(L, events, user_id, current_time) ==
    LET user_stats == get_user_stats(L, user_id, current_time)
        tail == SubSeq(events, IF Len(events) > 100 THEN Len(events) - 99 ELSE 1,
                       Len(events))
        Mine(event) == event.user_id = user_id
        blocked == is_user_blocked(user_stats, user_id, "websocket_message",
                                   current_time)
    IN  [rl |-> blocked.rl,
         recent_security_events |-> Len(SelectSeq(tail, Mine)),
         is_blocked |-> blocked.blocked]

GetUserSecuritySummary(u) ==
    LET s == get_user_security_summary(rate_limiter, security_events, u, now)
    IN  /\ manager.class = Secure
        /\ rate_limiter' = s.rl
        /\ result' = [NoResult EXCEPT !.op = "get_user_security_summary",
                                      !.user = u,
                                      !.endpoint = "websocket_message",
                                      !.allowed = ~ s.is_blocked,
                                      !.time = now]
        /\ UNCHANGED <<now, ticks, shadow, shadow_result, admissions, pipeVars, connVars>>

InitSummary == InitWith({2}, {[class |-> Secure, db_awaitable |-> FALSE]})

SummaryNext ==
    \/ \E d \in SummaryTickSteps : ticks < MaxSummaryTicks /\ Tick(d)
    \/ \E e \in Endpoints :
          HistLen(rate_limiter, Sender) < MaxSummaryHist /\ IsUserBlocked(Sender, e)
    \/ \E u \in SummaryUsers :
          HistLen(rate_limiter, u) < MaxSummaryHist /\ GetUserSecuritySummary(u)

SpecSummary == InitSummary /\ [][SummaryNext]_vars

\* the tokens of the (user, endpoint) bucket at the moment of a call: those
\* of the bucket refilled to now, or of a new bucket where none is kept
Available(L, u, e, t) ==
    LET limit == endpoint_limits(L, e)
        swept == IF t - L.last_cleanup > cleanup_interval
                 THEN _cleanup_old_entries(L, t) ELSE L
        bucket == IF u \in DOMAIN swept.buckets /\ e \in DOMAIN swept.buckets[u]
                  THEN swept.buckets[u][e] ELSE NewBucket(limit, t)
    IN  _refill_bucket(L, bucket, limit, t).tokens

\* the answer "blocked" is that of a check made at this moment, and the
\* answer "not blocked" has taken one token and logged one allowed request
BlockedLikeCheck(u, e) ==
    /\ result'.allowed = check_rate_limit(rate_limiter, u, e, now).allowed
    /\ result'.allowed = (Available(rate_limiter, u, e, now) >= TokenScale)
    /\ result'.allowed =>
          /\ u \in DOMAIN rate_limiter'.buckets
          /\ e \in DOMAIN rate_limiter'.buckets[u]
          /\ rate_limiter'.buckets[u][e].tokens =
                 Available(rate_limiter, u, e, now) - TokenScale
          /\ HistLen(rate_limiter', u) >= 1
          /\ Last(rate_limiter'.request_history[u]) =
                 [endpoint |-> e, timestamp |-> now, allowed |-> TRUE]
          /\ Len(SelectSeq(rate_limiter'.request_history[u],
                           LAMBDA entry : entry.timestamp = now)) =
             1 + (IF u \in DOMAIN rate_limiter.request_history
                  THEN Len(SelectSeq(rate_limiter.request_history[u],
                                     LAMBDA entry : entry.timestamp = now))
                  ELSE 0)

\* C40: is_user_blocked answers true exactly when check_rate_limit would deny
\* at that moment; an answer of false has consumed one token of the
\* (user, endpoint) bucket and appended one request-history entry, and so has
\* get_user_security_summary for the user it reports on.
BlockedConsumesToken ==
    [][ /\ \A u \in SummaryUsers, e \in Endpoints :
              IsUserBlocked(u, e) => BlockedLikeCheck(u, e)
        /\ \A u \in SummaryUsers :
              GetUserSecuritySummary(u) => BlockedLikeCheck(u, "websocket_message")
      ]_vars

\* a summary that reported the user not blocked and left the user's
\* websocket_message bucket without a whole token
BlockedConsumesTokenWitness ==
    /\ result.op = "get_user_security_summary"
    /\ result.allowed
    /\ result.user \in DOMAIN rate_limiter.buckets
    /\ "websocket_message" \in DOMAIN rate_limiter.buckets[result.user]
    /\ rate_limiter.buckets[result.user]["websocket_message"].tokens < TokenScale

====
